---- MODULE Spec2Model ----
(***************************************************************************)
(* A model of the meshing library (Bowyer-Watson tessellation in 2D/3D,    *)
(* surface extraction, voxel filling, advancing front, refinement).        *)
(*                                                                         *)
(* Numbers.  The library computes in f64.  Input coordinates of the model  *)
(* are small even integers, so every sum, difference and product the code  *)
(* forms before its one division (1.0 / (2.0 * det)) is an integer below   *)
(* 2^53 and exact in f64.  The division and what follows it round.  A      *)
(* comparison d2 <= r*r whose two sides differ in exact arithmetic is      *)
(* decided as in exact arithmetic (the difference is a rational with       *)
(* denominator det, far above the rounding error at these magnitudes);     *)
(* a comparison whose two sides are equal in exact arithmetic (the point   *)
(* is exactly on the sphere) is decided by rounding error, and the model   *)
(* lets it go either way.  Values wider than TLC's 32-bit integers are     *)
(* held as limb tuples (W-operators).                                      *)
(***************************************************************************)
EXTENDS Integers, Sequences, FiniteSets, TLC

VARIABLES
    pc,                 \* position of the running entry point
    result,             \* what the entry point returned, or NoValue
    points,             \* the caller's point list
    next_point,         \* position of the for-loop over points
    rounded,            \* rounding-decided comparisons that came out false so far
    tetrahedralization, \* working Vec<Tetrahedron> of bowyer_watson_3d
    super_tetrahedron,  \* the super-tetrahedron, or NoValue before it is built
    triangulation,      \* working Vec<Triangle> of bowyer_watson
    super_triangle,     \* the super-triangle, or NoValue before it is built
    tetrahedra,         \* the list of tetrahedra given to, or built by, a function
    grid,               \* voxel_mesh arguments min, max, nx, ny, nz; octree_mesh: min, max
    is_inside,          \* voxel_mesh argument: the points where the predicate holds
    cell,               \* voxel_mesh loop position <<k, j, i>>
    evaluated,          \* the points the predicate was called with, in order
    input_faces,        \* advancing_front argument faces
    front,              \* advancing_front: the front
    all_points,         \* advancing_front: the caller's points and the synthesized ones
    iterations,         \* loop iterations made so far
    refined_points,     \* delaunay_refinement: the points and the appended circumcentres
    max_radius_edge_ratio, \* delaunay_refinement argument, as <<numerator, denominator>>
    stack,              \* octree_mesh: the calls of subdivide still to be made, next first
    next_index,         \* octree_mesh: the counter next_index
    max_depth           \* octree_mesh argument

loop_vars == <<points, next_point, rounded>>

vars_3d == <<tetrahedralization, super_tetrahedron>>

vars_2d == <<triangulation, super_triangle>>

voxel_vars == <<grid, is_inside, cell, evaluated>>

front_vars == <<input_faces, front, all_points, iterations>>

refine_vars == <<refined_points, max_radius_edge_ratio>>

octree_vars == <<stack, next_index, max_depth>>

vars == <<pc, result, loop_vars, vars_3d, vars_2d, tetrahedra, voxel_vars, front_vars,
          refine_vars, octree_vars>>

NoValue == "none"

(***************************************************************************)
(* Bounds of the model.                                                    *)
(***************************************************************************)
\* longest point list given to bowyer_watson_3d
MaxPoints == 5

\* most comparisons of one run that rounding error turns from true to false
MaxRounded == 4

(***************************************************************************)
(* Wide integers: a value is a tuple of six limbs, least significant       *)
(* first, value = SUM limb[i] * LimbBase^(i-1); limbs may be negative or   *)
(* exceed the base until WNorm carries them.                               *)
(***************************************************************************)
LimbBase == 2^11

Limbs(x) == <<x % LimbBase, (x \div LimbBase) % LimbBase, x \div (LimbBase * LimbBase)>>

WMul(x, y) ==
    LET a == Limbs(x)
        b == Limbs(y)
    IN  <<a[1] * b[1],
          a[1] * b[2] + a[2] * b[1],
          a[1] * b[3] + a[2] * b[2] + a[3] * b[1],
          a[2] * b[3] + a[3] * b[2],
          a[3] * b[3],
          0>>

WAdd(u, v) == <<u[1] + v[1], u[2] + v[2], u[3] + v[3], u[4] + v[4], u[5] + v[5], u[6] + v[6]>>

WSub(u, v) == <<u[1] - v[1], u[2] - v[2], u[3] - v[3], u[4] - v[4], u[5] - v[5], u[6] - v[6]>>

WNeg(u) == <<0 - u[1], 0 - u[2], 0 - u[3], 0 - u[4], 0 - u[5], 0 - u[6]>>

WScale(u, k) == <<u[1] * k, u[2] * k, u[3] * k, u[4] * k, u[5] * k, u[6] * k>>

WNorm(u) ==
    LET c2 == u[2] + (u[1] \div LimbBase)
        c3 == u[3] + (c2 \div LimbBase)
        c4 == u[4] + (c3 \div LimbBase)
        c5 == u[5] + (c4 \div LimbBase)
        c6 == u[6] + (c5 \div LimbBase)
    IN  <<u[1] % LimbBase, c2 % LimbBase, c3 % LimbBase, c4 % LimbBase, c5 % LimbBase, c6>>

WSign(u) ==
    LET n == WNorm(u)
    IN  IF n[6] > 0 THEN 1
        ELSE IF n[6] < 0 THEN -1
        ELSE IF \E i \in 1..5 : n[i] # 0 THEN 1
        ELSE 0

Sign(x) == IF x > 0 THEN 1 ELSE IF x < 0 THEN -1 ELSE 0

(***************************************************************************)
(* Point3D, Face, Tetrahedron.                                             *)
(***************************************************************************)
Point3D(i, x, y, z) == [index |-> i, x |-> x, y |-> y, z |-> z]

Tetrahedron(a, b, c, d) == [a |-> a, b |-> b, c |-> c, d |-> d]

Face(a, b, c) == [a |-> a, b |-> b, c |-> c]

\* Tetrahedron::vertices
vertices(t) == <<t.a, t.b, t.c, t.d>>

\* Face::vertices
face_vertices(f) == <<f.a, f.b, f.c>>

\* Tetrahedron::faces
faces(t) == <<Face(t.a, t.b, t.c), Face(t.a, t.b, t.d), Face(t.a, t.c, t.d), Face(t.b, t.c, t.d)>>

Range(s) == {s[i] : i \in 1..Len(s)}

\* impl PartialEq for Tetrahedron: self == other
TetrahedronEq(self, other) == \A v \in Range(vertices(other)) : v \in Range(vertices(self))

\* a variant that compares the vertices position by position
FaceEqInOrder(self, other) == face_vertices(self) = face_vertices(other)

\* impl PartialEq for Face: self == other
FaceEq(self, other) == \A v \in Range(face_vertices(other)) : v \in Range(face_vertices(self))

(***************************************************************************)
(* Tetrahedron::circumsphere and Sphere::point_in_sphere.                  *)
(*   center = a + N / (2 det),  radius^2 = |N|^2 / (2 det)^2, and for      *)
(*   q = p - a:  dist^2(center, p) - radius^2 = (|q|^2 det - q.N) / det.   *)
(***************************************************************************)
EdgeVec(p, a) == <<p.x - a.x, p.y - a.y, p.z - a.z>>

NormSq(v) == v[1] * v[1] + v[2] * v[2] + v[3] * v[3]

\* det of tetrahedron.rs line 34 for the translated vertices b, c, d
Det3(b, c, d) ==
    b[1] * (c[2] * d[3] - c[3] * d[2]) - b[2] * (c[1] * d[3] - c[3] * d[1])
        + b[3] * (c[1] * d[2] - c[2] * d[1])

\* the numerators of ux, uy, uz (before * inv_det), carried to normal form
CircumNumerators(t) ==
    LET b == EdgeVec(t.b, t.a)
        c == EdgeVec(t.c, t.a)
        d == EdgeVec(t.d, t.a)
        b_sq == NormSq(b)
        c_sq == NormSq(c)
        d_sq == NormSq(d)
    IN  <<WNorm(WAdd(WSub(WMul(b_sq, c[2] * d[3] - c[3] * d[2]),
                          WMul(c_sq, b[2] * d[3] - b[3] * d[2])),
                     WMul(d_sq, b[2] * c[3] - b[3] * c[2]))),
          WNorm(WNeg(WAdd(WSub(WMul(b_sq, c[1] * d[3] - c[3] * d[1]),
                               WMul(c_sq, b[1] * d[3] - b[3] * d[1])),
                          WMul(d_sq, b[1] * c[3] - b[3] * c[1])))),
          WNorm(WAdd(WSub(WMul(b_sq, c[1] * d[2] - c[2] * d[1]),
                          WMul(c_sq, b[1] * d[2] - b[2] * d[1])),
                     WMul(d_sq, b[1] * c[2] - b[2] * c[1])))>>

\* a variant for inv_det = 1.0 / (4.0 * det)
TetDetDoubled(t) == 2 * Det3(EdgeVec(t.b, t.a), EdgeVec(t.c, t.a), EdgeVec(t.d, t.a))

TetDet(t) == Det3(EdgeVec(t.b, t.a), EdgeVec(t.c, t.a), EdgeVec(t.d, t.a))

\* Sign of dist^2(center, p) - radius^2 in exact arithmetic, for det # 0:
\* -1 strictly inside, 0 on the sphere, 1 outside.
SphereSide(t, p) ==
    LET det == TetDet(t)
        n == CircumNumerators(t)
        q == EdgeVec(p, t.a)
        e == WSub(WMul(NormSq(q), det),
                  WAdd(WAdd(WScale(n[1], q[1]), WScale(n[2], q[2])), WScale(n[3], q[3])))
    IN  WSign(e) * Sign(det)

\* det = 0: inv_det is infinite; a numerator of 0 makes the centre NaN and
\* every comparison false, three non-zero numerators make the centre and the
\* radius infinite and inf <= inf true.
FlatSphereContains(t) ==
    LET n == CircumNumerators(t)
    IN  WSign(n[1]) # 0 /\ WSign(n[2]) # 0 /\ WSign(n[3]) # 0

\* point_in_sphere(circumsphere(t), p) is certainly true
SurelyInSphere(t, p) ==
    IF TetDet(t) = 0 THEN FlatSphereContains(t) ELSE SphereSide(t, p) < 0

\* point_in_sphere(circumsphere(t), p) is decided by rounding
OnSphere(t, p) == TetDet(t) # 0 /\ SphereSide(t, p) = 0

\* p strictly inside the circumsphere of t (a flat t has none)
StrictlyInside(t, p) == TetDet(t) # 0 /\ SphereSide(t, p) < 0

(***************************************************************************)
(* geometry_3d.rs                                                          *)
(***************************************************************************)
I64_MIN == -2147483647

SetMin(S) == CHOOSE v \in S : \A w \in S : v <= w

SetMax(S) == CHOOSE v \in S : \A w \in S : v >= w

Max2(a, b) == IF a >= b THEN a ELSE b

\* lib.rs lines 254-303, the corners of the unit cube; their coordinates are
\* held in halves, so that the midpoint 0.5 is a whole number
Cube ==
    <<[index |-> 0, x |-> 0, y |-> 0, z |-> 0], [index |-> 1, x |-> 2, y |-> 0, z |-> 0],
      [index |-> 2, x |-> 0, y |-> 2, z |-> 0], [index |-> 3, x |-> 2, y |-> 2, z |-> 0],
      [index |-> 4, x |-> 0, y |-> 0, z |-> 2], [index |-> 5, x |-> 2, y |-> 0, z |-> 2],
      [index |-> 6, x |-> 0, y |-> 2, z |-> 2], [index |-> 7, x |-> 2, y |-> 2, z |-> 2]>>

\* what 1.0 is in the coordinates of a point list
One(pts) == IF pts = Cube THEN 2 ELSE 1

create_super_tetrahedron(pts) ==
    LET min_x == SetMin({pts[i].x : i \in 1..Len(pts)})
        min_y == SetMin({pts[i].y : i \in 1..Len(pts)})
        min_z == SetMin({pts[i].z : i \in 1..Len(pts)})
        max_x == SetMax({pts[i].x : i \in 1..Len(pts)})
        max_y == SetMax({pts[i].y : i \in 1..Len(pts)})
        max_z == SetMax({pts[i].z : i \in 1..Len(pts)})
        mid_x == (min_x + max_x) \div 2
        mid_y == (min_y + max_y) \div 2
        mid_z == (min_z + max_z) \div 2
        d == Max2(Max2(max_x - min_x, max_y - min_y), max_z - min_z)
        margin == d * 100 + 100 * One(pts)
        index == I64_MIN
    IN  Tetrahedron(Point3D(index, mid_x - margin, mid_y - margin, mid_z - margin),
                    Point3D(index + 1, mid_x + margin, mid_y - margin, mid_z - margin),
                    Point3D(index + 2, mid_x, mid_y + margin, mid_z - margin),
                    Point3D(index + 3, mid_x, mid_y, mid_z + margin))

face_is_shared_by_tetrahedra(face, tets) ==
    \E i \in 1..Len(tets) : \E j \in 1..4 : FaceEq(faces(tets[i])[j], face)

\* a variant that relabels the inserted point
retetrahedralize_relabelled(face, point) ==
    Tetrahedron(face.a, face.b, face.c, [point EXCEPT !.index = 0])

retetrahedralize(face, point) == Tetrahedron(face.a, face.b, face.c, point)

(***************************************************************************)
(* tetrahedron_utils.rs                                                    *)
(***************************************************************************)
\* a variant that forgets to compare tetrahedron_vertices[0]
contains_vertex_skipping_first(tetrahedron, super) ==
    \E i \in 1..4 : \E j \in 2..4 : vertices(super)[i] = vertices(tetrahedron)[j]

tetrahedron_contains_vertex_from_super_tetrahedron(tetrahedron, super) ==
    \E i \in 1..4 : \E j \in 1..4 : vertices(super)[i] = vertices(tetrahedron)[j]

\* a variant with the test inverted
keep_tetrahedra_with_vertices_from_super_tetrahedron(tets, super) ==
    SelectSeq(tets,
              LAMBDA tet : tetrahedron_contains_vertex_from_super_tetrahedron(tet, super))

remove_tetrahedra_with_vertices_from_super_tetrahedron(tets, super) ==
    SelectSeq(tets,
              LAMBDA tet : ~tetrahedron_contains_vertex_from_super_tetrahedron(tet, super))

(***************************************************************************)
(* lib.rs: bowyer_watson_3d                                                *)
(***************************************************************************)
RECURSIVE Flatten(_)
Flatten(ss) == IF ss = <<>> THEN <<>> ELSE Head(ss) \o Flatten(Tail(ss))

\* lines 124-138: the faces of the bad tetrahedra not shared by another one
BoundaryFaces(bad_tetrahedra) ==
    Flatten([i \in 1..Len(bad_tetrahedra) |->
        LET tet == bad_tetrahedra[i]
            bad_tetrahedra_without_tet ==
                SelectSeq(bad_tetrahedra, LAMBDA t : ~TetrahedronEq(t, tet))
        IN  SelectSeq(faces(tet),
                      LAMBDA face : ~face_is_shared_by_tetrahedra(face, bad_tetrahedra_without_tet))])

\* lines 140-142
RemoveBad(tets, bad_tetrahedra) ==
    SelectSeq(tets, LAMBDA tet : \A i \in 1..Len(bad_tetrahedra) : ~TetrahedronEq(tet, bad_tetrahedra[i]))

\* lines 144-147
Refill(boundary_faces, point) ==
    [i \in 1..Len(boundary_faces) |-> retetrahedralize(boundary_faces[i], point)]

\* positions of the tetrahedra for which point_in_sphere is decided by rounding
TiePositions(tets, point) == {i \in 1..Len(tets) : OnSphere(tets[i], point)}

\* point_in_sphere(circumsphere(tet), point), the comparisons of the
\* positions rounded_out having come out false
PointInSphere(tets, i, point, rounded_out) ==
    SurelyInSphere(tets[i], point) \/ (OnSphere(tets[i], point) /\ i \notin rounded_out)

Pick(tets, positions) ==
    LET RECURSIVE Go(_)
        Go(i) == IF i > Len(tets) THEN <<>>
                 ELSE (IF i \in positions THEN <<tets[i]>> ELSE <<>>) \o Go(i + 1)
    IN  Go(1)

\* lines 115-122
BadTetrahedra(tets, point, rounded_out) ==
    Pick(tets, {i \in 1..Len(tets) : PointInSphere(tets, i, point, rounded_out)})

\* one iteration of the for-loop of lines 114-148
InsertInto(tets, point, bad_tetrahedra) ==
    RemoveBad(tets, bad_tetrahedra) \o Refill(BoundaryFaces(bad_tetrahedra), point)

\* The positions an input point may take: three corners of a square in the
\* plane z = 2, the midpoint of one of its sides, and a point off that plane.
InputPoints ==
    {Point3D(0, 4, 4, 2), Point3D(0, 0, 4, 2), Point3D(0, 4, 0, 2),
     Point3D(0, 0, 0, 0), Point3D(0, 0, 2, 2)}

\* a point list labelled 0..n-1 in order
Labelled(s) == [i \in 1..Len(s) |-> [s[i] EXCEPT !.index = i - 1]]

Injective(s) == \A i, j \in 1..Len(s) : s[i] = s[j] => i = j

\* Lists of up to MaxPoints distinct positions, and every list of fewer than
\* four points (repeated positions included).
PointLists ==
    UNION {{Labelled(s) : s \in {f \in [1..n -> InputPoints] : n < 4 \/ Injective(f)}} :
           n \in 0..MaxPoints}

\* variables of the entry points that are not running
NoBowyerWatson3D == tetrahedralization = NoValue /\ super_tetrahedron = NoValue

NoBowyerWatson2D == triangulation = NoValue /\ super_triangle = NoValue

NoLoop == points = NoValue /\ next_point = NoValue /\ rounded = 0

NoVoxelMesh ==
    grid = NoValue /\ is_inside = NoValue /\ cell = NoValue /\ evaluated = NoValue

NoAdvancingFront ==
    input_faces = NoValue /\ front = NoValue /\ all_points = NoValue /\ iterations = NoValue

NoRefinement == refined_points = NoValue /\ max_radius_edge_ratio = NoValue

NoOctree == stack = NoValue /\ next_index = NoValue /\ max_depth = NoValue

\* a call bowyer_watson_3d(points)
Init ==
    /\ pc = "bowyer_watson_3d"
    /\ points \in PointLists
    /\ next_point = 1
    /\ rounded = 0
    /\ tetrahedralization = <<>>
    /\ super_tetrahedron = NoValue
    /\ result = NoValue
    /\ tetrahedra = NoValue
    /\ NoBowyerWatson2D
    /\ NoVoxelMesh
    /\ NoAdvancingFront
    /\ NoRefinement
    /\ NoOctree

\* lines 110-112; create_super_tetrahedron panics on an empty list
CreateSuper ==
    /\ pc = "bowyer_watson_3d"
    /\ IF points = <<>>
       THEN /\ pc' = "panic"
            /\ UNCHANGED <<tetrahedralization, super_tetrahedron>>
       ELSE /\ pc' = "insert"
            /\ super_tetrahedron' = create_super_tetrahedron(points)
            /\ tetrahedralization' = <<create_super_tetrahedron(points)>>
    /\ UNCHANGED <<result, loop_vars, vars_2d, tetrahedra, voxel_vars, front_vars,
                 refine_vars,
                   octree_vars>>

\* lines 114-148, one point
InsertPoint ==
    /\ pc = "insert"
    /\ next_point <= Len(points)
    /\ \E rounded_out \in SUBSET TiePositions(tetrahedralization, points[next_point]) :
         LET point == points[next_point]
             bad_tetrahedra == BadTetrahedra(tetrahedralization, point, rounded_out)
         IN  /\ rounded + Cardinality(rounded_out) <= MaxRounded
             /\ rounded' = rounded + Cardinality(rounded_out)
             /\ tetrahedralization' = InsertInto(tetrahedralization, point, bad_tetrahedra)
    /\ next_point' = next_point + 1
    /\ UNCHANGED <<pc, result, points, super_tetrahedron, vars_2d, tetrahedra, voxel_vars, front_vars,
                 refine_vars,
                   octree_vars>>

\* lines 150-153
Finish ==
    /\ pc = "insert"
    /\ next_point > Len(points)
    /\ result' = remove_tetrahedra_with_vertices_from_super_tetrahedron(
                     tetrahedralization, super_tetrahedron)
    /\ pc' = "done"
    /\ UNCHANGED <<loop_vars, vars_3d, vars_2d, tetrahedra, voxel_vars, front_vars,
                 refine_vars,
                   octree_vars>>

Next == CreateSuper \/ InsertPoint \/ Finish

Spec == Init /\ [][Next]_vars

(***************************************************************************)
(* Properties of bowyer_watson_3d                                          *)
(***************************************************************************)
Returned == pc = "done"

HasVertex(tet, p) == p \in Range(vertices(tet))

\* C1: every returned tetrahedron has no input point, other than its own
\* vertices, strictly inside its circumsphere.
C1_EmptyCircumsphere ==
    Returned =>
        \A i \in 1..Len(result) : \A j \in 1..Len(points) :
            ~HasVertex(result[i], points[j]) => ~StrictlyInside(result[i], points[j])

SignedVolume6(t) ==
    LET u == EdgeVec(t.b, t.a)
        v == EdgeVec(t.c, t.a)
        w == EdgeVec(t.d, t.a)
    IN  u[1] * (v[2] * w[3] - v[3] * w[2]) - u[2] * (v[1] * w[3] - v[3] * w[1])
            + u[3] * (v[1] * w[2] - v[2] * w[1])

\* C6: no returned tetrahedron has signed volume zero.
C6_NonZeroVolume ==
    Returned => \A i \in 1..Len(result) : SignedVolume6(result[i]) # 0

(***************************************************************************)
(* export/stl.rs: extract_surface_faces                                    *)
(***************************************************************************)
\* line 26: tetrahedra.iter().flat_map(|t| t.faces()).collect()
AllFaces(tets) == Flatten([i \in 1..Len(tets) |-> faces(tets[i])])

\* lines 25-38
extract_surface_faces(tets) ==
    LET all_faces == AllFaces(tets)
        RECURSIVE Go(_, _)
        Go(i, surface) ==
            IF i > Len(all_faces) THEN surface
            ELSE LET face == all_faces[i]
                     count == Cardinality({j \in 1..Len(all_faces) : FaceEq(all_faces[j], face)})
                 IN  Go(i + 1,
                        IF count = 1 /\ ~\E n \in 1..Len(surface) : FaceEq(surface[n], face)
                        THEN Append(surface, face)
                        ELSE surface)
    IN  Go(1, <<>>)

(***************************************************************************)
(* voxel_mesh.rs                                                           *)
(***************************************************************************)
\* most cells along one axis of the grid
MaxAxis == 2

\* most cells of the grid
MaxCells == 8

\* line 40-42: dx = (max.x - min.x) / nx; with nx = 0 the quotient is never used
CellSize(lo, hi, n) == IF n = 0 THEN NoValue ELSE (hi - lo) \div n

\* a variant that counts cells where the code counts grid vertices
vertex_index_by_cells(g, ix, iy, iz) == ix * g.ny * g.nz + iy * g.nz + iz

\* lines 60-62
vertex_index(g, ix, iy, iz) == ix * (g.ny + 1) * (g.nz + 1) + iy * (g.nz + 1) + iz

\* the corner at grid position (ix, iy, iz): lines 64-111
GridPoint(g, ix, iy, iz) ==
    Point3D(vertex_index(g, ix, iy, iz),
            g.min.x + ix * CellSize(g.min.x, g.max.x, g.nx),
            g.min.y + iy * CellSize(g.min.y, g.max.y, g.ny),
            g.min.z + iz * CellSize(g.min.z, g.max.z, g.nz))

\* lines 49-54: min + (i + 0.5) * dx, the cell sizes of the model being even
center(g, i, j, k) ==
    Point3D(-1,
            g.min.x + ((2 * i + 1) * CellSize(g.min.x, g.max.x, g.nx)) \div 2,
            g.min.y + ((2 * j + 1) * CellSize(g.min.y, g.max.y, g.ny)) \div 2,
            g.min.z + ((2 * k + 1) * CellSize(g.min.z, g.max.z, g.nz)) \div 2)

\* lines 64-111: p0 .. p7 of the cell (i, j, k)
Corners(g, i, j, k) ==
    <<GridPoint(g, i, j, k), GridPoint(g, i + 1, j, k),
      GridPoint(g, i + 1, j + 1, k), GridPoint(g, i, j + 1, k),
      GridPoint(g, i, j, k + 1), GridPoint(g, i + 1, j, k + 1),
      GridPoint(g, i + 1, j + 1, k + 1), GridPoint(g, i, j + 1, k + 1)>>

\* a variant without the central tetrahedron
FourTetrahedra(p) ==
    <<Tetrahedron(p[1], p[2], p[4], p[5]),
      Tetrahedron(p[2], p[3], p[4], p[7]),
      Tetrahedron(p[2], p[5], p[6], p[7]),
      Tetrahedron(p[4], p[5], p[7], p[8])>>

\* a variant with two vertices of the central tetrahedron exchanged
FiveTetrahedraMirrored(p) ==
    <<Tetrahedron(p[1], p[2], p[4], p[5]),
      Tetrahedron(p[2], p[3], p[4], p[7]),
      Tetrahedron(p[2], p[5], p[6], p[7]),
      Tetrahedron(p[4], p[5], p[7], p[8]),
      Tetrahedron(p[4], p[2], p[5], p[7])>>

\* lines 114-118, p[n + 1] being the code's pn
FiveTetrahedra(p) ==
    <<Tetrahedron(p[1], p[2], p[4], p[5]),
      Tetrahedron(p[2], p[3], p[4], p[7]),
      Tetrahedron(p[2], p[5], p[6], p[7]),
      Tetrahedron(p[4], p[5], p[7], p[8]),
      Tetrahedron(p[2], p[4], p[5], p[7])>>

\* the three nested for-loops of lines 46-48: the cell after <<i, j, k>>
NextCell(g, c) ==
    IF c[3] + 1 < g.nz THEN <<c[1], c[2], c[3] + 1>>
    ELSE IF c[2] + 1 < g.ny THEN <<c[1], c[2] + 1, 0>>
    ELSE IF c[1] + 1 < g.nx THEN <<c[1] + 1, 0, 0>>
    ELSE NoValue

FirstCell(g) == IF g.nx = 0 \/ g.ny = 0 \/ g.nz = 0 THEN NoValue ELSE <<0, 0, 0>>

Cells(g) == (0..(g.nx - 1)) \X (0..(g.ny - 1)) \X (0..(g.nz - 1))

\* the sizes a cell may have: a cube, a box, a box flat in x
CellSizes == {<<2, 2, 2>>, <<2, 4, 6>>, <<0, 2, 2>>}

Grids ==
    {g \in {[min |-> Point3D(0, -2, 0, 2),
             max |-> Point3D(0, -2 + nx * size[1], 0 + ny * size[2], 2 + nz * size[3]),
             nx |-> nx, ny |-> ny, nz |-> nz] :
                nx \in 0..MaxAxis, ny \in 0..MaxAxis, nz \in 0..MaxAxis, size \in CellSizes} :
        g.nx * g.ny * g.nz <= MaxCells}

\* a call voxel_mesh(min, max, nx, ny, nz, is_inside)
InitVoxel ==
    /\ pc = "voxel_mesh"
    /\ grid \in Grids
    /\ is_inside \in SUBSET {center(grid, c[1], c[2], c[3]) : c \in Cells(grid)}
    /\ cell = FirstCell(grid)
    /\ evaluated = <<>>
    /\ tetrahedra = <<>>
    /\ result = NoValue
    /\ NoLoop
    /\ NoBowyerWatson3D
    /\ NoBowyerWatson2D
    /\ NoAdvancingFront
    /\ NoRefinement
    /\ NoOctree

\* lines 49-118: the loop body for one cell
VoxelCell ==
    /\ pc = "voxel_mesh"
    /\ cell # NoValue
    /\ LET c == center(grid, cell[1], cell[2], cell[3])
       IN  /\ evaluated' = Append(evaluated, c)
           /\ tetrahedra' =
                IF c \notin is_inside THEN tetrahedra
                ELSE tetrahedra \o FiveTetrahedra(Corners(grid, cell[1], cell[2], cell[3]))
    /\ cell' = NextCell(grid, cell)
    /\ UNCHANGED <<pc, result, grid, is_inside, loop_vars, vars_3d, vars_2d, front_vars,
                 refine_vars,
                   octree_vars>>

\* line 123
VoxelReturn ==
    /\ pc = "voxel_mesh"
    /\ cell = NoValue
    /\ result' = tetrahedra
    /\ pc' = "voxel_done"
    /\ UNCHANGED <<tetrahedra, voxel_vars, loop_vars, vars_3d, vars_2d, front_vars,
                 refine_vars,
                   octree_vars>>

NextVoxel == VoxelCell \/ VoxelReturn

SpecVoxel == InitVoxel /\ [][NextVoxel]_vars

(***************************************************************************)
(* Properties of voxel_mesh                                                *)
(***************************************************************************)
VoxelReturned == pc = "voxel_done"

CellCentre(c) == center(grid, c[1], c[2], c[3])

InsideCells == {c \in Cells(grid) : CellCentre(c) \in is_inside}

\* the vertex indices of the eight corners of cell c
CornerIndices(c) ==
    {vertex_index(grid, c[1] + a, c[2] + b, c[3] + d) : a \in 0..1, b \in 0..1, d \in 0..1}

IndexSet(s) == {s[n].index : n \in 1..Len(s)}

\* positions of the returned tetrahedra whose vertices are corners of cell c
TetsOfCell(c) ==
    {n \in 1..Len(result) : IndexSet(vertices(result[n])) \subseteq CornerIndices(c)}

\* C10: the call returns five tetrahedra for every cell whose centre
\* satisfies the predicate and none for any other cell, and has called the
\* predicate once per cell, with the centre of the cell.
C10_FivePerInsideCell ==
    VoxelReturned =>
        /\ \A c \in Cells(grid) :
             Cardinality(TetsOfCell(c)) = IF c \in InsideCells THEN 5 ELSE 0
        /\ Len(result) = 5 * Cardinality(InsideCells)
        /\ Len(evaluated) = Cardinality(Cells(grid))
        /\ \A c \in Cells(grid) :
             Cardinality({n \in 1..Len(evaluated) : evaluated[n] = CellCentre(c)})
                 = Cardinality({d \in Cells(grid) : CellCentre(d) = CellCentre(c)})

C10_Witness ==
    /\ VoxelReturned
    /\ Cardinality(Cells(grid)) = 8
    /\ Cardinality(InsideCells) = 3
    /\ Len(result) = 15

\* the triangles (as sets of vertex indices) that the tetrahedra of cell c
\* place among the vertices shared
TrianglesOn(c, shared) ==
    {IndexSet(face_vertices(faces(result[n])[j])) : n \in TetsOfCell(c), j \in 1..4}
        \cap SUBSET shared

Adjacent(c, d) ==
    Cardinality({n \in 1..3 : c[n] # d[n]}) = 1
        /\ \A n \in 1..3 : c[n] - d[n] \in {-1, 0, 1}

\* the corners of cell c on its side lo (0) or hi (1) along an axis
CellSide(c, axis, side) ==
    {vertex_index(grid, c[1] + o[1], c[2] + o[2], c[3] + o[3]) :
        o \in {q \in (0..1) \X (0..1) \X (0..1) : q[axis] = side}}

AcrossSide(c, axis, side) == [c EXCEPT ![axis] = c[axis] + 2 * side - 1]

\* a triangle on the outer boundary of the filled region lies on a side of a
\* filled cell whose neighbour across that side is not filled
OnOuterBoundary(triangle) ==
    \E c \in InsideCells : \E axis \in 1..3 : \E side \in 0..1 :
        /\ triangle \subseteq CellSide(c, axis, side)
        /\ AcrossSide(c, axis, side) \notin InsideCells

\* C9: two filled cells that share a cell face place the same two triangles
\* on it, and the surface faces of the returned mesh all lie on the outer
\* boundary of the filled region.
C9_NeighbouringCellsAgree ==
    VoxelReturned =>
        /\ \A c \in InsideCells : \A d \in InsideCells :
             Adjacent(c, d) =>
                 TrianglesOn(c, CornerIndices(c) \cap CornerIndices(d))
                     = TrianglesOn(d, CornerIndices(c) \cap CornerIndices(d))
        /\ LET surface == extract_surface_faces(result)
           IN  \A n \in 1..Len(surface) :
                   OnOuterBoundary(IndexSet(face_vertices(surface[n])))

(***************************************************************************)
(* A call extract_surface_faces(tetrahedra)                                *)
(***************************************************************************)
\* longest list of tetrahedra given to extract_surface_faces
MaxTetrahedra == 2

\* five points labelled 0..4
MeshPoints == Range(Labelled(<<Point3D(0, 4, 4, 2), Point3D(0, 0, 4, 2), Point3D(0, 4, 0, 2),
                               Point3D(0, 0, 0, 0), Point3D(0, 0, 2, 2)>>))

\* the tetrahedra over these points, a vertex possibly repeated, one
\* ordering of each
MeshTetrahedra ==
    {t \in [a : MeshPoints, b : MeshPoints, c : MeshPoints, d : MeshPoints] :
        t.a.index <= t.b.index /\ t.b.index <= t.c.index /\ t.c.index <= t.d.index}

TetrahedraLists == UNION {[1..n -> MeshTetrahedra] : n \in 0..MaxTetrahedra}

InitSurface ==
    /\ pc = "extract_surface_faces"
    /\ tetrahedra \in TetrahedraLists
    /\ result = NoValue
    /\ NoLoop
    /\ NoBowyerWatson3D
    /\ NoBowyerWatson2D
    /\ NoVoxelMesh
    /\ NoAdvancingFront
    /\ NoRefinement
    /\ NoOctree

\* lines 25-38
ExtractSurface ==
    /\ pc = "extract_surface_faces"
    /\ result' = extract_surface_faces(tetrahedra)
    /\ pc' = "surface_done"
    /\ UNCHANGED <<tetrahedra, loop_vars, vars_3d, vars_2d, voxel_vars, front_vars,
                 refine_vars,
                   octree_vars>>

NextSurface == ExtractSurface

SpecSurface == InitSurface /\ [][NextSurface]_vars

(***************************************************************************)
(* Properties of extract_surface_faces                                     *)
(***************************************************************************)
\* f and g are the same unordered vertex triple
SameTriple(f, g) ==
    \E m \in {q \in [1..3 -> 1..3] : \A i, j \in 1..3 : q[i] = q[j] => i = j} :
        \A i \in 1..3 : face_vertices(f)[i] = face_vertices(g)[m[i]]

\* the tetrahedra of the list that have the triple of f in their face list
Incidence(f, tets) ==
    Cardinality({n \in 1..Len(tets) : \E j \in 1..4 : SameTriple(faces(tets[n])[j], f)})

\* C5: the returned list holds exactly the faces that are in the face list
\* of exactly one tetrahedron, each of them once.
C5_ExactlyIncidenceOne ==
    pc = "surface_done" =>
        /\ \A n \in 1..Len(result) : Incidence(result[n], tetrahedra) = 1
        /\ \A m, n \in 1..Len(result) : SameTriple(result[m], result[n]) => m = n
        /\ \A i \in 1..Len(tetrahedra) : \A j \in 1..4 :
             Incidence(faces(tetrahedra[i])[j], tetrahedra) = 1
                 => \E n \in 1..Len(result) : SameTriple(result[n], faces(tetrahedra[i])[j])

(***************************************************************************)
(* Point2D, Edge, Triangle, Circle.  The 2D coordinates of the model are   *)
(* held in quarters (the unit square has corners 0 and 4), so that the     *)
(* midpoint taken by create_super_triangle is a whole number.              *)
(***************************************************************************)
Point2D(i, x, y) == [index |-> i, x |-> x, y |-> y]

Edge(start, end) == [start |-> start, end |-> end]

Triangle(a, b, c) == [a |-> a, b |-> b, c |-> c]

\* Edge::reverse
reverse(e) == Edge(e.end, e.start)

\* impl PartialEq for Edge
EdgeEq(self, other) ==
    \/ self.start = other.start /\ self.end = other.end
    \/ self.start = other.end /\ self.end = other.start

\* Triangle::vertices
triangle_vertices(t) == <<t.a, t.b, t.c>>

\* Triangle::edges
edges(t) == <<Edge(t.a, t.b), Edge(t.b, t.c), Edge(t.c, t.a)>>

\* Triangle equality: an ordered triple of points
TriangleEq(self, other) == self = other

\* Sign of dist^2(center, p) - radius^2 for the circumcircle of t, in exact
\* arithmetic, for a triangle that is not flat: with b, c, q the vectors from
\* t.a to t.b, t.c, p, the centre is t.a + N / (2 cross).
CircleSide(t, p) ==
    LET b == <<t.b.x - t.a.x, t.b.y - t.a.y>>
        c == <<t.c.x - t.a.x, t.c.y - t.a.y>>
        q == <<p.x - t.a.x, p.y - t.a.y>>
        b_sq == b[1] * b[1] + b[2] * b[2]
        c_sq == c[1] * c[1] + c[2] * c[2]
        q_sq == q[1] * q[1] + q[2] * q[2]
        cross == b[1] * c[2] - b[2] * c[1]
        n == <<c[2] * b_sq - b[2] * c_sq, b[1] * c_sq - c[1] * b_sq>>
    IN  WSign(WSub(WMul(q_sq, cross), WAdd(WMul(q[1], n[1]), WMul(q[2], n[2]))))
            * Sign(cross)

\* twice the signed area of t
TriangleCross(t) ==
    (t.b.x - t.a.x) * (t.c.y - t.a.y) - (t.b.y - t.a.y) * (t.c.x - t.a.x)

\* point_in_circle(generate_circumcircle(t), p) is certainly true
SurelyInCircle(t, p) == TriangleCross(t) # 0 /\ CircleSide(t, p) < 0

\* p is exactly on the circumcircle of t: rounding decides point_in_circle
OnCircle(t, p) == TriangleCross(t) # 0 /\ CircleSide(t, p) = 0

\* t is flat and has no circumcircle: what point_in_circle answers is open
FlatTriangle(t) == TriangleCross(t) = 0

(***************************************************************************)
(* error.rs, geometry.rs, triangle_utils.rs                                *)
(***************************************************************************)
EmptyInput == [kind |-> "EmptyInput"]

InsufficientPoints(n) == [kind |-> "InsufficientPoints", count |-> n]

Ok(v) == [ok |-> v]

Err(e) == [err |-> e]

create_super_triangle(pts) ==
    LET index == 0
        min_x == SetMin({pts[i].x : i \in 1..Len(pts)})
        min_y == SetMin({pts[i].y : i \in 1..Len(pts)})
        max_x == SetMax({pts[i].x : i \in 1..Len(pts)})
        max_y == SetMax({pts[i].y : i \in 1..Len(pts)})
        dx == max_x - min_x
        dy == max_y - min_y
        spread == IF dx > dy THEN dx ELSE dy
        margin == (spread + 4) * 10
    IN  Triangle(Point2D(index, min_x - margin, min_y - margin),
                 Point2D(index, max_x + margin, min_y - margin),
                 Point2D(index, (min_x + max_x) \div 2, max_y + margin))

edge_is_shared_by_triangles(edge, triangles) ==
    \E i \in 1..Len(triangles) : \E j \in 1..3 :
        EdgeEq(edges(triangles[i])[j], edge) \/ EdgeEq(reverse(edges(triangles[i])[j]), edge)

retriangulate(edge, point) == Triangle(edge.start, edge.end, point)

\* a variant that looks for the first super vertex only
triangle_contains_first_super_vertex(triangle, super) ==
    \E j \in 1..3 : triangle_vertices(super)[1] = triangle_vertices(triangle)[j]

triangle_contains_vertex_from_super_triangle(triangle, super) ==
    \E i \in 1..3 : \E j \in 1..3 : triangle_vertices(super)[i] = triangle_vertices(triangle)[j]

remove_triangles_with_vertices_from_super_triangle(triangles, super) ==
    SelectSeq(triangles, LAMBDA t : ~triangle_contains_vertex_from_super_triangle(t, super))

(***************************************************************************)
(* lib.rs: bowyer_watson                                                   *)
(***************************************************************************)
\* longest point list given to bowyer_watson
MaxPoints2D == 4

NoError == [kind |-> "none"]

\* a variant that lets two points through
InputErrorBelowTwo(pts) ==
    IF pts = <<>> THEN EmptyInput
    ELSE IF Len(pts) < 2 THEN InsufficientPoints(Len(pts))
    ELSE NoError

\* lines 45-50: the error the call returns at once, if any
InputError(pts) ==
    IF pts = <<>> THEN EmptyInput
    ELSE IF Len(pts) < 3 THEN InsufficientPoints(Len(pts))
    ELSE NoError

\* lines 66-84: the edges of the bad triangles not shared by another one
Polygon(bad_triangles) ==
    Flatten([i \in 1..Len(bad_triangles) |->
        LET triangle == bad_triangles[i]
            bad_triangles_without_triangle ==
                SelectSeq(bad_triangles, LAMBDA t : ~TriangleEq(t, triangle))
        IN  SelectSeq(edges(triangle),
                      LAMBDA edge : ~edge_is_shared_by_triangles(edge, bad_triangles_without_triangle))])

\* lines 86-89
RemoveBadTriangles(triangles, bad_triangles) ==
    SelectSeq(triangles,
              LAMBDA triangle : \A i \in 1..Len(bad_triangles) : ~TriangleEq(triangle, bad_triangles[i]))

\* lines 91-96
RefillPolygon(polygon, point) ==
    [i \in 1..Len(polygon) |-> retriangulate(polygon[i], point)]

\* positions of the triangles for which point_in_circle is decided by rounding
TiePositions2D(triangles, point) == {i \in 1..Len(triangles) : OnCircle(triangles[i], point)}

\* positions of the flat triangles
FlatPositions2D(triangles) == {i \in 1..Len(triangles) : FlatTriangle(triangles[i])}

\* lines 60-68, the comparisons of the positions out having come out false
BadTriangles(triangles, point, out) ==
    Pick(triangles,
         {i \in 1..Len(triangles) :
            \/ SurelyInCircle(triangles[i], point)
            \/ (OnCircle(triangles[i], point) \/ FlatTriangle(triangles[i])) /\ i \notin out})

\* one iteration of the for-loop of lines 59-97
InsertInto2D(triangles, point, bad_triangles) ==
    RemoveBadTriangles(triangles, bad_triangles) \o RefillPolygon(Polygon(bad_triangles), point)

\* The positions a 2D input point may take: the corners of the unit square
\* and its centre.
InputPoints2D ==
    {Point2D(0, 0, 0), Point2D(0, 4, 0), Point2D(0, 0, 4), Point2D(0, 4, 4), Point2D(0, 2, 2)}

\* Lists of up to MaxPoints2D distinct positions, and every list of fewer
\* than three points.
PointLists2D ==
    UNION {{Labelled(s) : s \in {f \in [1..n -> InputPoints2D] : n < 3 \/ Injective(f)}} :
           n \in 0..MaxPoints2D}

\* a call bowyer_watson(points)
Init2D ==
    /\ pc = "bowyer_watson"
    /\ points \in PointLists2D
    /\ next_point = 1
    /\ rounded = 0
    /\ triangulation = NoValue
    /\ super_triangle = NoValue
    /\ result = NoValue
    /\ tetrahedra = NoValue
    /\ NoBowyerWatson3D
    /\ NoVoxelMesh
    /\ NoAdvancingFront
    /\ NoRefinement
    /\ NoOctree

\* lines 45-50
CheckInput ==
    /\ pc = "bowyer_watson"
    /\ IF InputError(points) # NoError
       THEN result' = Err(InputError(points)) /\ pc' = "returned_2d"
       ELSE result' = result /\ pc' = "create_super_triangle"
    /\ UNCHANGED <<loop_vars, vars_3d, vars_2d, tetrahedra, voxel_vars, front_vars,
                 refine_vars,
                   octree_vars>>

\* lines 52-56
CreateSuperTriangle ==
    /\ pc = "create_super_triangle"
    /\ super_triangle' = create_super_triangle(points)
    /\ triangulation' = <<create_super_triangle(points)>>
    /\ pc' = "insert_2d"
    /\ UNCHANGED <<result, loop_vars, vars_3d, tetrahedra, voxel_vars, front_vars,
                 refine_vars,
                   octree_vars>>

\* lines 59-97, one point
InsertPoint2D ==
    /\ pc = "insert_2d"
    /\ next_point <= Len(points)
    /\ LET point == points[next_point]
           ties == TiePositions2D(triangulation, point)
       IN  \E out \in SUBSET (ties \cup FlatPositions2D(triangulation)) :
             /\ rounded + Cardinality(out \cap ties) <= MaxRounded
             /\ rounded' = rounded + Cardinality(out \cap ties)
             /\ triangulation' =
                    InsertInto2D(triangulation, point, BadTriangles(triangulation, point, out))
    /\ next_point' = next_point + 1
    /\ UNCHANGED <<pc, result, points, super_triangle, vars_3d, tetrahedra, voxel_vars, front_vars,
                 refine_vars,
                   octree_vars>>

\* lines 102-105
Finish2D ==
    /\ pc = "insert_2d"
    /\ next_point > Len(points)
    /\ result' = Ok(remove_triangles_with_vertices_from_super_triangle(
                        triangulation, super_triangle))
    /\ pc' = "returned_2d"
    /\ UNCHANGED <<loop_vars, vars_3d, vars_2d, tetrahedra, voxel_vars, front_vars,
                 refine_vars,
                   octree_vars>>

Next2D == CheckInput \/ CreateSuperTriangle \/ InsertPoint2D \/ Finish2D

Spec2D == Init2D /\ [][Next2D]_vars

\* either driver
SpecBowyerWatson == (Init \/ Init2D) /\ [][Next \/ Next2D]_vars

(***************************************************************************)
(* Properties of bowyer_watson and of both drivers                         *)
(***************************************************************************)
Returned2D == pc = "returned_2d"

Running2D == pc \in {"bowyer_watson", "create_super_triangle", "insert_2d", "returned_2d"}

\* C3: with no point the call returns EmptyInput, with one or two points
\* InsufficientPoints carrying the count, with three or more an Ok value; a
\* call with fewer than three points never builds the super-triangle or the
\* triangulation.
C3_ErrorsByCount ==
    Running2D =>
        /\ Len(points) < 3 => pc \in {"bowyer_watson", "returned_2d"}
        /\ (Len(points) = 0 /\ Returned2D) => result = Err(EmptyInput)
        /\ (Len(points) \in 1..2 /\ Returned2D) =>
                result = Err(InsufficientPoints(Len(points)))
        /\ Len(points) < 3 => (triangulation = NoValue /\ super_triangle = NoValue)
        /\ (Len(points) >= 3 /\ Returned2D) => DOMAIN result = {"ok"}

C3_Witness ==
    /\ Returned2D
    /\ Len(points) = 2
    /\ result = Err(InsufficientPoints(2))
    /\ triangulation = NoValue

SuperFree3D(t) == Range(vertices(t)) \cap Range(vertices(super_tetrahedron)) = {}

SuperFree2D(t) == Range(triangle_vertices(t)) \cap Range(triangle_vertices(super_triangle)) = {}

\* C2: no returned simplex has a vertex of the super-simplex, and the
\* returned list is the working tessellation without the simplices that have
\* one, in 2D and in 3D.
C2_NoSuperVertex ==
    /\ Returned =>
        /\ \A i \in 1..Len(result) : SuperFree3D(result[i])
        /\ result = SelectSeq(tetrahedralization, SuperFree3D)
    /\ (Returned2D /\ Len(points) >= 3) =>
        /\ \A i \in 1..Len(result.ok) : SuperFree2D(result.ok[i])
        /\ result.ok = SelectSeq(triangulation, SuperFree2D)

C2_Witness ==
    /\ Returned
    /\ result # <<>>
    /\ \E i \in 1..Len(tetrahedralization) : ~SuperFree3D(tetrahedralization[i])

(***************************************************************************)
(* advancing_front.rs.  A caller's point has integer coordinates; a point  *)
(* the function synthesizes has irrational ones in general and is kept as  *)
(* [index, projected_from], the face it was projected from.  Lengths are   *)
(* compared through exact integers: for a face with vertex sum s and cross *)
(* product n, side has the sign of n.(3p - s) and dist is |3p - s|^2 / 9.  *)
(***************************************************************************)
\* longest face list given to advancing_front, the closed surface apart
MaxFaces == 2

\* loop iterations of advancing_front that are followed
MaxIterations == 3

IsProjected(p) == "projected_from" \in DOMAIN p

\* lines 4-12: the cross product, before the division by its length
face_normal(face) ==
    LET u == EdgeVec(face.b, face.a)
        v == EdgeVec(face.c, face.a)
    IN  <<u[2] * v[3] - u[3] * v[2], u[3] * v[1] - u[1] * v[3], u[1] * v[2] - u[2] * v[1]>>

\* lines 21-25, times three
face_centroid(face) ==
    <<face.a.x + face.b.x + face.c.x, face.a.y + face.b.y + face.c.y,
      face.a.z + face.b.z + face.c.z>>

dot(a, b) == a[1] * b[1] + a[2] * b[2] + a[3] * b[3]

\* lines 70-72, times three
FromCentroid(face, p) ==
    LET s == face_centroid(face)
    IN  <<3 * p.x - s[1], 3 * p.y - s[2], 3 * p.z - s[3]>>

\* positions of the points of lines 65-76 (sign 1) or 87-95 (sign -1)
OnSide(face, pts, sign) ==
    {i \in 1..Len(pts) : /\ pts[i] \notin Range(face_vertices(face))
                         /\ Sign(dot(face_normal(face), FromCentroid(face, pts[i]))) = sign}

\* The positions best_point can end at after one of the two loops: the first
\* point at the least distance, or, where the centroid is rounded, any of the
\* points at the least distance.
Nearest(face, pts, sign) ==
    LET side == OnSide(face, pts, sign)
        dist(i) == NormSq(FromCentroid(face, pts[i]))
        least == {i \in side : \A j \in side : dist(i) <= dist(j)}
        s == face_centroid(face)
    IN  IF least = {} \/ (s[1] % 3 = 0 /\ s[2] % 3 = 0 /\ s[3] % 3 = 0)
        THEN {i \in least : \A j \in least : i <= j}
        ELSE least

\* a variant that searches the negative side first
BestPointsNegativeFirst(face, pts) ==
    LET others == {i \in 1..Len(pts) : pts[i] \notin Range(face_vertices(face))}
    IN  IF face.a = face.b \/ face.a = face.c \/ face.b = face.c
        THEN {0}
        ELSE IF \E p \in Range(face_vertices(face)) \cup {pts[i] : i \in others} : IsProjected(p)
        THEN others \cup {0}
        ELSE IF Nearest(face, pts, -1) # {} THEN Nearest(face, pts, -1)
        ELSE IF Nearest(face, pts, 1) # {} THEN Nearest(face, pts, 1)
        ELSE {0}

\* Lines 62-120: the positions in all_points best_point can be, 0 for a point
\* to synthesize.  A face with a repeated vertex has the normal (0, 0, 0)
\* of lines 13-16, and no point is on a side of it.  With a synthesized point
\* among the face or the candidates the comparisons are left open.
BestPoints(face, pts) ==
    LET others == {i \in 1..Len(pts) : pts[i] \notin Range(face_vertices(face))}
    IN  IF face.a = face.b \/ face.a = face.c \/ face.b = face.c
        THEN {0}
        ELSE IF \E p \in Range(face_vertices(face)) \cup {pts[i] : i \in others} : IsProjected(p)
        THEN others \cup {0}
        ELSE IF Nearest(face, pts, 1) # {} THEN Nearest(face, pts, 1)
        ELSE IF Nearest(face, pts, -1) # {} THEN Nearest(face, pts, -1)
        ELSE {0}

\* Lines 111-117.  With the normal (0, 0, 0) the point is the centroid, which
\* is kept with its coordinates where they are integers.
new_point(face, pts) ==
    LET s == face_centroid(face)
    IN  IF /\ \A p \in Range(face_vertices(face)) : ~IsProjected(p)
           /\ face_normal(face) = <<0, 0, 0>>
           /\ s[1] % 3 = 0 /\ s[2] % 3 = 0 /\ s[3] % 3 = 0
        THEN Point3D(Len(pts), s[1] \div 3, s[2] \div 3, s[3] \div 3)
        ELSE [index |-> Len(pts), projected_from |-> face]

\* iter().position(|f| f == face), 0 for None
position(s, face) ==
    IF \E i \in 1..Len(s) : FaceEq(s[i], face)
    THEN CHOOSE i \in 1..Len(s) : FaceEq(s[i], face) /\ \A j \in 1..(i - 1) : ~FaceEq(s[j], face)
    ELSE 0

swap_remove(s, pos) == [i \in 1..(Len(s) - 1) |-> IF i = pos THEN s[Len(s)] ELSE s[i]]

remove_face_from_front(s, face) ==
    IF position(s, face) # 0 THEN swap_remove(s, position(s, face)) ELSE s

\* lines 155-162, one face
UpdateFront(s, new_face) ==
    IF position(s, new_face) # 0 THEN swap_remove(s, position(s, new_face))
    ELSE Append(s, new_face)

\* a variant that allows one iteration more
max_iterations_and_one(fs) == Len(fs) * 100 + 1

\* line 51
max_iterations(fs) == Len(fs) * 100

\* the caller's points: the corners of a tetrahedron
FrontPoints ==
    <<Point3D(0, 0, 0, 0), Point3D(1, 4, 0, 0), Point3D(2, 0, 4, 0), Point3D(3, 0, 0, 4)>>

\* the four faces of that tetrahedron with the normal pointing out of it
\* and the same four with the normal pointing into it
FrontFaces ==
    {Face(FrontPoints[t[1]], FrontPoints[t[2]], FrontPoints[t[3]]) :
        t \in {<<1, 3, 2>>, <<1, 2, 4>>, <<2, 3, 4>>, <<1, 4, 3>>,
               <<1, 2, 3>>, <<1, 4, 2>>, <<2, 4, 3>>, <<1, 3, 4>>}}

\* the closed surface of the tetrahedron
ClosedSurface ==
    <<Face(FrontPoints[1], FrontPoints[3], FrontPoints[2]),
      Face(FrontPoints[1], FrontPoints[2], FrontPoints[4]),
      Face(FrontPoints[2], FrontPoints[3], FrontPoints[4]),
      Face(FrontPoints[1], FrontPoints[4], FrontPoints[3])>>

FaceLists == UNION {[1..n -> FrontFaces] : n \in 0..MaxFaces} \cup {ClosedSurface}

\* Any of the corners, under the indices the faces use or relabelled 0..n-1.
FrontPointLists ==
    LET chosen(S) == SelectSeq(FrontPoints, LAMBDA p : p.index \in S)
    IN  {chosen(S) : S \in SUBSET (0..3)} \cup {Labelled(chosen(S)) : S \in SUBSET (0..3)}

\* a call advancing_front(faces, points)
InitFront ==
    /\ pc = "advancing_front"
    /\ input_faces \in FaceLists
    /\ points \in FrontPointLists
    /\ front = <<>>
    /\ all_points = <<>>
    /\ iterations = 0
    /\ tetrahedra = <<>>
    /\ result = <<>>
    /\ next_point = NoValue
    /\ rounded = 0
    /\ NoBowyerWatson3D
    /\ NoBowyerWatson2D
    /\ NoVoxelMesh
    /\ NoRefinement
    /\ NoOctree

\* lines 43-52
StartFront ==
    /\ pc = "advancing_front"
    /\ IF input_faces = <<>>
       THEN /\ pc' = "front_done"
            /\ result' = <<>>
            /\ UNCHANGED <<front, tetrahedra, all_points, iterations>>
       ELSE /\ pc' = "front_loop"
            /\ front' = input_faces
            /\ tetrahedra' = <<>>
            /\ all_points' = points
            /\ iterations' = 0
            /\ UNCHANGED result
    /\ UNCHANGED <<input_faces, loop_vars, vars_3d, vars_2d, voxel_vars, refine_vars,
                   octree_vars>>

\* lines 54-163, one iteration
AdvanceFront ==
    /\ pc = "front_loop"
    /\ front # <<>>
    /\ iterations < max_iterations(input_faces)
    /\ iterations < MaxIterations
    /\ iterations' = iterations + 1
    /\ \E best_point \in BestPoints(front[1], all_points) :
       \E chosen \in {IF best_point = 0 THEN new_point(front[1], all_points)
                      ELSE all_points[best_point]} :
       \E removed \in {remove_face_from_front(front, front[1])} :
       \E first \in {UpdateFront(removed, Face(front[1].a, front[1].b, chosen))} :
       \E second \in {UpdateFront(first, Face(front[1].b, front[1].c, chosen))} :
         /\ all_points' = IF best_point = 0 THEN Append(all_points, chosen)
                          ELSE all_points
         /\ tetrahedra' = Append(tetrahedra,
                                 Tetrahedron(front[1].a, front[1].b, front[1].c, chosen))
         /\ front' = UpdateFront(second, Face(front[1].a, front[1].c, chosen))
    /\ UNCHANGED <<pc, result, input_faces, loop_vars, vars_3d, vars_2d, voxel_vars,
                   refine_vars,
                   octree_vars>>

\* lines 54 and 165
ReturnFront ==
    /\ pc = "front_loop"
    /\ front = <<>> \/ iterations >= max_iterations(input_faces)
    /\ pc' = "front_done"
    /\ result' = tetrahedra
    /\ UNCHANGED <<tetrahedra, front_vars, loop_vars, vars_3d, vars_2d, voxel_vars,
                   refine_vars,
                   octree_vars>>

NextFront == StartFront \/ AdvanceFront \/ ReturnFront

SpecFront == InitFront /\ [][NextFront]_vars

\* the points advancing_front has synthesized so far
Synthesized == {all_points[i] : i \in (Len(points) + 1)..Len(all_points)}

\* the indices the caller uses, in the point list and in the faces
CallerIndices ==
    {points[i].index : i \in 1..Len(points)}
        \cup UNION {{input_faces[i].a.index, input_faces[i].b.index, input_faces[i].c.index} :
                    i \in 1..Len(input_faces)}

\* C7: every point advancing_front synthesizes has an index that no point of
\* the caller's list, no vertex of the caller's faces and no other
\* synthesized point has.
C7_SynthesizedIndicesFresh ==
    pc = "front_loop" =>
        /\ \A p \in Synthesized : p.index \notin CallerIndices
        /\ \A p, q \in Synthesized : p.index = q.index => p = q

(***************************************************************************)
(* delaunay_refinement.rs.  The ratio of a tetrahedron is compared through *)
(* its exact square |N|^2 / (4 det^2 l^2), l the shortest edge; where the  *)
(* two sides of a comparison are equal and are not computed exactly, the   *)
(* comparison is left open.  A run is followed as long as the circumcentre *)
(* it appends has integer coordinates.                                     *)
(***************************************************************************)
\* circumcentres appended in one run that are followed
MaxInsertions == 2

\* the value of a wide integer in normal form that fits three limbs
WInt(u) ==
    IF u[6] < 0
    THEN (u[1] - LimbBase) + (u[2] - (LimbBase - 1)) * LimbBase
             + (u[3] - (LimbBase - 1)) * LimbBase * LimbBase
    ELSE u[1] + u[2] * LimbBase + u[3] * LimbBase * LimbBase

Abs(x) == IF x < 0 THEN 0 - x ELSE x

\* lines 3-15, squared
shortest_edge_length(tet) ==
    SetMin({NormSq(EdgeVec(vertices(tet)[e[1]], vertices(tet)[e[2]])) :
               e \in {e \in (1..4) \X (1..4) : e[1] < e[2]}})

\* 1 / (2 det) is a power of two: centre, radius and ratio carry no rounding
\* error but that of the square roots of radius and shortest edge
ExactCentre(tet) == \E k \in 0..30 : Abs(2 * TetDet(tet)) = 2^k

\* The quotient of line 19 for numerators n, determinant det and squared
\* shortest edge l.  A flat tetrahedron has an infinite radius, or NaN where
\* a numerator is 0.
Ratio(n, det, l) ==
    IF det = 0
    THEN [kind |-> IF WSign(n[1]) # 0 /\ WSign(n[2]) # 0 /\ WSign(n[3]) # 0
                   THEN "inf" ELSE "nan"]
    ELSE [kind |-> "finite",
          num |-> NormSq(<<WInt(n[1]), WInt(n[2]), WInt(n[3])>>),
          den |-> 4 * det * det * l]

\* lines 17-20
radius_edge_ratio(tet) ==
    Ratio(CircumNumerators(tet), TetDet(tet), shortest_edge_length(tet))

\* the sign of ra - rb for two finite ratios
RatioSign(ra, rb) == WSign(WSub(WMul(ra.num, rb.den), WMul(rb.num, ra.den)))

\* The values ra.partial_cmp(rb).unwrap_or(Equal) = Greater can take; exact
\* says that equal ratios are computed equal.
Greater(ra, rb, exact) ==
    IF ra.kind = "nan" \/ rb.kind = "nan" THEN {FALSE}
    ELSE IF ra.kind = "inf" THEN {rb.kind = "finite"}
    ELSE IF rb.kind = "inf" THEN {FALSE}
    ELSE IF RatioSign(ra, rb) # 0 THEN {RatioSign(ra, rb) > 0}
    ELSE IF exact THEN {FALSE}
    ELSE BOOLEAN

\* lines 61-63
RatioGreater(a, b) ==
    Greater(radius_edge_ratio(a), radius_edge_ratio(b),
            /\ ExactCentre(a)
            /\ ExactCentre(b)
            /\ shortest_edge_length(a) = shortest_edge_length(b))

\* Lines 60-64: the positions max_by can return; it keeps the accumulator
\* only where the comparison says Greater.
Worst(mesh) ==
    LET accs[i \in 1..Len(mesh)] ==
            IF i = 1 THEN {1}
            ELSE UNION {{IF greater THEN acc ELSE i :
                            greater \in RatioGreater(mesh[acc], mesh[i])} :
                        acc \in accs[i - 1]}
    IN  IF mesh = <<>> THEN {} ELSE accs[Len(mesh)]

\* The values r <= max can take for the thresholds of Thresholds.
Within(r, max, exact) ==
    IF r.kind # "finite" THEN {FALSE}
    ELSE IF RatioSign(r, [num |-> max[1] * max[1], den |-> max[2] * max[2]]) # 0
    THEN {RatioSign(r, [num |-> max[1] * max[1], den |-> max[2] * max[2]]) < 0}
    ELSE IF exact THEN {TRUE}
    ELSE BOOLEAN

\* line 71
RatioWithin(tet, max) == Within(radius_edge_ratio(tet), max, ExactCentre(tet))

\* n / den is a vector of integers
Divisible(n, den) == \A i \in 1..3 : Abs(WInt(n[i])) % Abs(den) = 0

\* the circumcentre has integer coordinates that f64 computes exactly
Representable(tet) ==
    /\ TetDet(tet) # 0
    /\ ExactCentre(tet)
    /\ Divisible(CircumNumerators(tet), 2 * TetDet(tet))

\* a + n / den
Centre(a, n, den, index) ==
    Point3D(index, a.x + (WInt(n[1]) * Sign(den)) \div Abs(den),
                   a.y + (WInt(n[2]) * Sign(den)) \div Abs(den),
                   a.z + (WInt(n[3]) * Sign(den)) \div Abs(den))

\* a variant that takes the first vertex for the centre
first_vertex(tet, index) == [tet.a EXCEPT !.index = index]

\* lines 75-81
circumcentre(tet, index) == Centre(tet.a, CircumNumerators(tet), 2 * TetDet(tet), index)

\* the midpoints create_super_tetrahedron takes are integers
OnLattice(pts) ==
    /\ (SetMin({pts[i].x : i \in 1..Len(pts)}) + SetMax({pts[i].x : i \in 1..Len(pts)})) % 2 = 0
    /\ (SetMin({pts[i].y : i \in 1..Len(pts)}) + SetMax({pts[i].y : i \in 1..Len(pts)})) % 2 = 0
    /\ (SetMin({pts[i].z : i \in 1..Len(pts)}) + SetMax({pts[i].z : i \in 1..Len(pts)})) % 2 = 0

\* a point list with the indices 0, 2, 4, ..
Sparse(s) == [i \in 1..Len(s) |-> [s[i] EXCEPT !.index = 2 * (i - 1)]]

\* five points of one sphere, four of them on one circle
Cospherical ==
    <<Point3D(0, 2, 4, 4), Point3D(1, 4, 4, 0), Point3D(2, 4, 2, 4), Point3D(3, 0, 4, 2),
      Point3D(4, 2, 0, 0)>>

\* four points in general position, labelled 0, 2, 4, 6
Skew ==
    <<Point3D(0, 4, 4, 4), Point3D(2, 0, 2, 0), Point3D(4, 0, 2, 2), Point3D(6, 0, 0, 0)>>

RefinementPointLists ==
    PointLists \cup {Sparse(s) : s \in PointLists} \cup {Cospherical, Skew}

\* 0.5, 1.0 and 2.0
Thresholds == {<<1, 2>>, <<1, 1>>, <<2, 1>>}

\* the point list delaunay_refinement was called with
CallerPoints == SubSeq(refined_points, 1, Len(refined_points) - iterations)

\* a call delaunay_refinement(points, max_radius_edge_ratio)
InitRefinement ==
    /\ pc = "delaunay_refinement"
    /\ points \in RefinementPointLists
    /\ max_radius_edge_ratio \in Thresholds
    /\ refined_points = NoValue
    /\ next_point = NoValue
    /\ rounded = 0
    /\ result = NoValue
    /\ tetrahedra = <<>>
    /\ NoBowyerWatson3D
    /\ NoBowyerWatson2D
    /\ NoVoxelMesh
    /\ NoAdvancingFront
    /\ NoOctree

\* lines 55-57, up to the call of bowyer_watson_3d, which CreateSuper,
\* InsertPoint and Finish make; its return value, result, is mesh
StartRefinement ==
    /\ pc = "delaunay_refinement"
    /\ refined_points' = points
    /\ iterations' = 0
    /\ next_point' = 1
    /\ tetrahedralization' = <<>>
    /\ pc' = "bowyer_watson_3d"
    /\ UNCHANGED <<result, points, rounded, super_tetrahedron, vars_2d, tetrahedra,
                   voxel_vars, input_faces, front, all_points, max_radius_edge_ratio,
                   octree_vars>>

\* lines 59-83, an iteration that appends a circumcentre, up to the call
RefineWorst ==
    /\ pc = "done"
    /\ iterations < max_iterations(CallerPoints)
    /\ iterations < MaxInsertions
    /\ \E worst \in Worst(result) :
         /\ FALSE \in RatioWithin(result[worst], max_radius_edge_ratio)
         /\ Representable(result[worst])
         /\ refined_points' =
                Append(refined_points, circumcentre(result[worst], Len(refined_points)))
    /\ OnLattice(refined_points')
    /\ points' = refined_points'
    /\ iterations' = iterations + 1
    /\ next_point' = 1
    /\ tetrahedralization' = <<>>
    /\ pc' = "bowyer_watson_3d"
    /\ UNCHANGED <<result, rounded, super_tetrahedron, vars_2d, tetrahedra, voxel_vars,
                   input_faces, front, all_points, max_radius_edge_ratio,
                   octree_vars>>

\* lines 59, 66-73 and 86: the loop ends and mesh is returned
ReturnRefinement ==
    /\ pc = "done"
    /\ \/ iterations >= max_iterations(CallerPoints)
       \/ result = <<>>
       \/ \E worst \in Worst(result) :
            TRUE \in RatioWithin(result[worst], max_radius_edge_ratio)
    /\ pc' = "refined"
    /\ UNCHANGED <<result, loop_vars, vars_3d, vars_2d, tetrahedra, voxel_vars, front_vars,
                   refine_vars,
                   octree_vars>>

NextRefinement ==
    StartRefinement \/ CreateSuper \/ InsertPoint \/ Finish \/ RefineWorst
        \/ ReturnRefinement

SpecRefinement == InitRefinement /\ [][NextRefinement]_vars

\* C8: every circumcentre delaunay_refinement appends has an index that no
\* point of the caller's list and no circumcentre appended before it has.
C8_CircumcentreIndicesFresh ==
    pc # "delaunay_refinement" =>
        \A i \in (Len(CallerPoints) + 1)..Len(refined_points) :
            \A j \in 1..(i - 1) : refined_points[j].index # refined_points[i].index

(***************************************************************************)
(* Vertex indices of voxel_mesh.                                           *)
(***************************************************************************)
\* the grid vertices: positions (ix, iy, iz) of the corners of all cells
GridVertices(g) == (0..g.nx) \X (0..g.ny) \X (0..g.nz)

\* the vertices of the tetrahedra of a list
VerticesOf(tets) == UNION {Range(vertices(tets[n])) : n \in 1..Len(tets)}

\* the grid vertices that are corners of a cell whose centre is inside
FilledVertices ==
    {v \in GridVertices(grid) :
        \E c \in InsideCells : \A n \in 1..3 : v[n] - c[n] \in 0..1}

\* C11: every corner in the tetrahedra voxel_mesh builds is the point of a
\* grid vertex of a filled cell under the index ix*(ny+1)*(nz+1) + iy*(nz+1)
\* + iz, every such grid vertex occurs, two grid vertices have the same
\* index only if they are the same, and a fully filled grid uses
\* (nx+1)*(ny+1)*(nz+1) indices.
C11_IndexByGridVertex ==
    VoxelReturned =>
        /\ VerticesOf(result)
               = {GridPoint(grid, v[1], v[2], v[3]) : v \in FilledVertices}
        /\ \A v, w \in GridVertices(grid) :
               vertex_index(grid, v[1], v[2], v[3]) = vertex_index(grid, w[1], w[2], w[3])
                   => v = w
        /\ \A p, q \in VerticesOf(result) : p.index = q.index => p = q
        /\ InsideCells = Cells(grid) /\ Cells(grid) # {} =>
               Cardinality({p.index : p \in VerticesOf(result)})
                   = (grid.nx + 1) * (grid.ny + 1) * (grid.nz + 1)

C11_Witness ==
    /\ VoxelReturned
    /\ Cardinality(Cells(grid)) = 8
    /\ InsideCells = Cells(grid)
    /\ Cardinality({p.index : p \in VerticesOf(result)}) = 27

(***************************************************************************)
(* octree.rs                                                               *)
(***************************************************************************)
\* greatest max_depth given to octree_mesh
MaxDepth == 2

\* most leaf cells for which every predicate on their centres is taken
MaxLeaves == 8

Bounds(min_x, min_y, min_z, max_x, max_y, max_z) ==
    [min_x |-> min_x, min_y |-> min_y, min_z |-> min_z,
     max_x |-> max_x, max_y |-> max_y, max_z |-> max_z]

\* lines 22-27: the centre of b, the sums of the model being even
leaf_center(b) ==
    Point3D(-1, (b.min_x + b.max_x) \div 2, (b.min_y + b.max_y) \div 2,
            (b.min_z + b.max_z) \div 2)

\* a variant that numbers the last corner idx + 8
leaf_corners_overlapping(b, idx) ==
    <<Point3D(idx, b.min_x, b.min_y, b.min_z), Point3D(idx + 1, b.max_x, b.min_y, b.min_z),
      Point3D(idx + 2, b.max_x, b.max_y, b.min_z), Point3D(idx + 3, b.min_x, b.max_y, b.min_z),
      Point3D(idx + 4, b.min_x, b.min_y, b.max_z), Point3D(idx + 5, b.max_x, b.min_y, b.max_z),
      Point3D(idx + 6, b.max_x, b.max_y, b.max_z), Point3D(idx + 8, b.min_x, b.max_y, b.max_z)>>

\* lines 34-43: the corners p[0] .. p[7] of b, numbered from idx
leaf_corners(b, idx) ==
    <<Point3D(idx, b.min_x, b.min_y, b.min_z), Point3D(idx + 1, b.max_x, b.min_y, b.min_z),
      Point3D(idx + 2, b.max_x, b.max_y, b.min_z), Point3D(idx + 3, b.min_x, b.max_y, b.min_z),
      Point3D(idx + 4, b.min_x, b.min_y, b.max_z), Point3D(idx + 5, b.max_x, b.min_y, b.max_z),
      Point3D(idx + 6, b.max_x, b.max_y, b.max_z), Point3D(idx + 7, b.min_x, b.max_y, b.max_z)>>

\* lines 54-67
octants(b) ==
    LET mid_x == (b.min_x + b.max_x) \div 2
        mid_y == (b.min_y + b.max_y) \div 2
        mid_z == (b.min_z + b.max_z) \div 2
    IN  <<Bounds(b.min_x, b.min_y, b.min_z, mid_x, mid_y, mid_z),
          Bounds(mid_x, b.min_y, b.min_z, b.max_x, mid_y, mid_z),
          Bounds(b.min_x, mid_y, b.min_z, mid_x, b.max_y, mid_z),
          Bounds(mid_x, mid_y, b.min_z, b.max_x, b.max_y, mid_z),
          Bounds(b.min_x, b.min_y, mid_z, mid_x, mid_y, b.max_z),
          Bounds(mid_x, b.min_y, mid_z, b.max_x, mid_y, b.max_z),
          Bounds(b.min_x, mid_y, mid_z, mid_x, b.max_y, b.max_z),
          Bounds(mid_x, mid_y, mid_z, b.max_x, b.max_y, b.max_z)>>

\* a variant that goes down two levels at once
CallsTwoLevels(b, depth) == [n \in 1..8 |-> [b |-> octants(b)[n], depth |-> depth + 2]]

\* the calls subdivide(octant, depth + 1, ..) of lines 69-71, in order
Calls(b, depth) == [n \in 1..8 |-> [b |-> octants(b)[n], depth |-> depth + 1]]

\* the leaf cells below b, in the order the recursion reaches them
RECURSIVE Leaves(_, _, _)
Leaves(b, depth, d) ==
    IF depth >= d THEN <<b>>
    ELSE Flatten([n \in 1..8 |-> Leaves(octants(b)[n], depth + 1, d)])

\* the boxes given to octree_mesh: a cube, a box, a box flat in x
OctreeBoxes ==
    {Bounds(0, 0, 0, 8, 8, 8), Bounds(-8, 0, 4, 8, 8, 12), Bounds(2, 0, 0, 2, 8, 8)}

\* The predicates: every set of leaf centres where they are few, else all of
\* them, none, a half space and a slanted half space.
Predicates(centres) ==
    IF Cardinality(centres) <= MaxLeaves THEN SUBSET centres
    ELSE {centres, {}, {c \in centres : c.y < 4}, {c \in centres : c.x + c.y + c.z < 12}}

\* a call octree_mesh(min, max, max_depth, is_inside): lines 108-118
InitOctree ==
    /\ pc = "octree_mesh"
    /\ max_depth \in 0..MaxDepth
    /\ grid \in OctreeBoxes
    /\ stack = <<[b |-> grid, depth |-> 0]>>
    /\ is_inside \in Predicates({leaf_center(Leaves(grid, 0, max_depth)[n]) :
                                     n \in 1..Len(Leaves(grid, 0, max_depth))})
    /\ next_index = 0
    /\ tetrahedra = <<>>
    /\ evaluated = <<>>
    /\ cell = NoValue
    /\ result = NoValue
    /\ NoLoop
    /\ NoBowyerWatson3D
    /\ NoBowyerWatson2D
    /\ NoAdvancingFront
    /\ NoRefinement

\* lines 21-52: a call of subdivide at depth >= max_depth
SubdivideLeaf ==
    /\ pc = "octree_mesh"
    /\ stack # <<>>
    /\ Head(stack).depth >= max_depth
    /\ evaluated' = Append(evaluated, leaf_center(Head(stack).b))
    /\ IF leaf_center(Head(stack).b) \notin is_inside
       THEN UNCHANGED <<next_index, tetrahedra>>
       ELSE /\ next_index' = next_index + 8
            /\ tetrahedra' =
                   tetrahedra \o FiveTetrahedra(leaf_corners(Head(stack).b, next_index))
    /\ stack' = Tail(stack)
    /\ UNCHANGED <<pc, result, max_depth, grid, is_inside, cell, loop_vars, vars_3d, vars_2d,
                   front_vars, refine_vars>>

\* lines 54-71: a call of subdivide at depth < max_depth, up to its calls
SubdivideOctants ==
    /\ pc = "octree_mesh"
    /\ stack # <<>>
    /\ Head(stack).depth < max_depth
    /\ stack' = Calls(Head(stack).b, Head(stack).depth) \o Tail(stack)
    /\ UNCHANGED <<pc, result, tetrahedra, next_index, max_depth, voxel_vars, loop_vars,
                   vars_3d, vars_2d, front_vars, refine_vars>>

\* line 119
OctreeReturn ==
    /\ pc = "octree_mesh"
    /\ stack = <<>>
    /\ result' = tetrahedra
    /\ pc' = "octree_done"
    /\ UNCHANGED <<tetrahedra, octree_vars, voxel_vars, loop_vars, vars_3d, vars_2d,
                   front_vars, refine_vars>>

NextOctree == SubdivideLeaf \/ SubdivideOctants \/ OctreeReturn

SpecOctree == InitOctree /\ [][NextOctree]_vars

OctreeReturned == pc = "octree_done"

\* the leaf cells, in order, whose centre satisfies the predicate
InsideLeaves ==
    SelectSeq(Leaves(grid, 0, max_depth), LAMBDA b : leaf_center(b) \in is_inside)

\* C12: octree_mesh with max_depth d calls the predicate 8^d times, once with
\* the centre of every leaf cell, and returns five tetrahedra on the corners
\* of every leaf whose centre satisfies it and nothing else: 5 * 8^d
\* tetrahedra where it holds everywhere, none where it holds nowhere.
C12_FivePerInsideLeaf ==
    OctreeReturned =>
        /\ Len(evaluated) = 8 ^ max_depth
        /\ evaluated = [n \in 1..Len(Leaves(grid, 0, max_depth)) |->
                           leaf_center(Leaves(grid, 0, max_depth)[n])]
        /\ Len(result) = 5 * Len(InsideLeaves)
        /\ \A m \in 1..Len(InsideLeaves) : \A n \in 1..5 :
               {[p EXCEPT !.index = 0] : p \in Range(vertices(result[5 * (m - 1) + n]))}
                   \subseteq {[p EXCEPT !.index = 0] :
                                  p \in Range(leaf_corners(InsideLeaves[m], 0))}
        /\ Range(evaluated) \subseteq is_inside => Len(result) = 5 * 8 ^ max_depth
        /\ Range(evaluated) \cap is_inside = {} => result = <<>>

C12_Witness ==
    /\ OctreeReturned
    /\ max_depth = 2
    /\ Range(evaluated) \subseteq is_inside
    /\ Len(result) = 320

\* the vertices of the five tetrahedra returned for the m-th emitting leaf
LeafVertices(m) == VerticesOf(SubSeq(result, 5 * (m - 1) + 1, 5 * m))

SamePosition(p, q) == p.x = q.x /\ p.y = q.y /\ p.z = q.z

\* C13: the k-th leaf that emits tetrahedra (k from 0) has its eight corners
\* under the indices 8k .. 8k+7, in the order of the corner array; a leaf
\* outside the domain takes no index, and no index is used by two leaves,
\* not even at a position where they touch.
C13_EightFreshIndicesPerLeaf ==
    OctreeReturned =>
        /\ next_index = 8 * Len(InsideLeaves)
        /\ \A m \in 1..Len(InsideLeaves) :
               /\ LeafVertices(m) = Range(leaf_corners(InsideLeaves[m], 8 * (m - 1)))
               /\ {p.index : p \in LeafVertices(m)} = (8 * (m - 1))..(8 * (m - 1) + 7)
        /\ \A m, n \in 1..Len(InsideLeaves) :
               \A p \in LeafVertices(m), q \in LeafVertices(n) :
                   m # n => p.index # q.index

C13_Witness ==
    /\ OctreeReturned
    /\ evaluated[1] \notin is_inside
    /\ Len(InsideLeaves) = 3
    /\ \E p \in LeafVertices(1), q \in LeafVertices(2) :
           SamePosition(p, q) /\ p.index # q.index

(***************************************************************************)
(* Termination of advancing_front.  Past MaxIterations iterations the      *)
(* geometry is no longer followed: an iteration still counts, appends one  *)
(* tetrahedron and leaves a front that is empty or not.                    *)
(***************************************************************************)
\* a tetrahedron of an iteration that is not followed
SomeTetrahedron == Tetrahedron(NoValue, NoValue, NoValue, NoValue)

\* lines 54-163, one iteration, the choice of the point left open
AdvanceUnfollowed ==
    /\ pc = "front_loop"
    /\ front # <<>>
    /\ iterations < max_iterations(input_faces)
    /\ iterations >= MaxIterations
    /\ iterations' = iterations + 1
    /\ tetrahedra' = Append(tetrahedra, SomeTetrahedron)
    /\ front' \in {front, <<>>}
    /\ UNCHANGED <<pc, result, input_faces, all_points, loop_vars, vars_3d, vars_2d,
                   voxel_vars, refine_vars, octree_vars>>

\* calls with at most one face or the closed surface, and with no point, one
\* point or the four corners
InitFrontFew ==
    /\ InitFront
    /\ Len(input_faces) <= 1 \/ input_faces = ClosedSurface
    /\ points \in {<<>>, <<FrontPoints[4]>>, FrontPoints}

NextFrontAll == NextFront \/ AdvanceUnfollowed

\* every step of advancing_front changes the position or the iteration count
front_progress == <<pc, IF pc = "front_loop" THEN iterations ELSE 0>>

\* the function keeps running until it returns
SpecFrontLive ==
    /\ InitFrontFew
    /\ [][NextFrontAll]_vars
    /\ WF_front_progress(StartFront)
    /\ WF_front_progress(AdvanceFront)
    /\ WF_front_progress(AdvanceUnfollowed)
    /\ WF_front_progress(ReturnFront)

FrontReturned == pc = "front_done"

\* what holds of the loop at every moment
FrontLoopBounded ==
    CASE pc = "front_loop" ->
             /\ iterations <= 100 * Len(input_faces)
             /\ Len(tetrahedra) = iterations
      [] pc = "front_done" ->
             IF input_faces = <<>>
             THEN result = <<>>
             ELSE /\ Len(result) = iterations
                  /\ Len(result) <= 100 * Len(input_faces)
                  /\ iterations < 100 * Len(input_faces) => front = <<>>
      [] OTHER -> TRUE

\* C14: advancing_front returns; it makes at most 100 * |faces| iterations,
\* each appending one tetrahedron, returns before that only with an empty
\* front, and returns the empty list for an empty face list.
C14_FrontTerminates == []FrontLoopBounded /\ <>FrontReturned

C14_Witness ==
    /\ FrontReturned
    /\ Len(input_faces) = 1
    /\ front # <<>>
    /\ Len(result) = 100

(***************************************************************************)
(* The mesh delaunay_refinement returns.                                   *)
(***************************************************************************)
RefinementReturned == pc = "refined"

\* the tetrahedra of the returned mesh whose ratio is above the threshold
\* however the comparison of line 71 rounds
AboveThreshold ==
    {i \in 1..Len(result) : RatioWithin(result[i], max_radius_edge_ratio) = {FALSE}}

\* C15: when delaunay_refinement returns before 100 * |points| circumcentres
\* were inserted, every tetrahedron of the returned mesh has a ratio <= the
\* threshold.
C15_ReturnedWithinThreshold ==
    RefinementReturned /\ iterations < 100 * Len(CallerPoints) => AboveThreshold = {}

(***************************************************************************)
(* pipeline.rs, refine_tetrahedra applied to the mesh delaunay_refinement  *)
(* returned, with the same threshold.  tetrahedra is its argument, empty   *)
(* until it is called.                                                     *)
(***************************************************************************)
\* lines 11-17: the vertices in order of first appearance, one per index
first_by_index(tets) ==
    LET all == [n \in 1..(4 * Len(tets)) |->
                   vertices(tets[((n - 1) \div 4) + 1])[((n - 1) % 4) + 1]]
        unique[n \in 0..Len(all)] ==
            IF n = 0 THEN <<>>
            ELSE IF \E i \in 1..Len(unique[n - 1]) : unique[n - 1][i].index = all[n].index
                 THEN unique[n - 1]
                 ELSE Append(unique[n - 1], all[n])
    IN  unique[Len(all)]

\* line 18, a stable sort
sort_by_index(s) ==
    LET before(i, j) == s[i].index < s[j].index \/ (s[i].index = s[j].index /\ i < j)
        rank(i) == Cardinality({j \in 1..Len(s) : before(j, i)}) + 1
    IN  [k \in 1..Len(s) |-> s[CHOOSE i \in 1..Len(s) : rank(i) = k]]

\* lines 9-20
extract_unique_points(tets) == sort_by_index(first_by_index(tets))

\* lines 113-122, up to the call of delaunay_refinement
RefineTetrahedra ==
    /\ pc = "refined"
    /\ tetrahedra = <<>>
    /\ tetrahedra' = result
    /\ IF result = <<>>
       THEN /\ pc' = "refine_tetrahedra_done"
            /\ UNCHANGED <<result, points>>
       ELSE /\ pc' = "delaunay_refinement"
            /\ points' = extract_unique_points(result)
            /\ OnLattice(points')
            /\ result' = NoValue
    /\ UNCHANGED <<next_point, rounded, vars_3d, vars_2d, voxel_vars, front_vars,
                   refine_vars, octree_vars>>

NextRefineTetrahedra == NextRefinement \/ RefineTetrahedra

\* calls with at most four points
InitRefineTetrahedra == InitRefinement /\ Len(points) <= 4

SpecRefineTetrahedra == InitRefineTetrahedra /\ [][NextRefineTetrahedra]_vars

\* refine_tetrahedra has returned
RefinedTwice ==
    \/ pc = "refine_tetrahedra_done"
    \/ pc = "refined" /\ tetrahedra # <<>>

\* C16: refine_tetrahedra(delaunay_refinement(P, r), r) inserts no point and
\* returns as many tetrahedra as delaunay_refinement(P, r) did.
C16_SameCountNoInsertion ==
    RefinedTwice /\ tetrahedra # <<>> /\ rounded = 0 =>
        /\ iterations = 0
        /\ Len(result) = Len(tetrahedra)

(***************************************************************************)
(* The vertices of the simplices both drivers return, and the cube of      *)
(* test_bowyer_watson_3d_cube.                                             *)
(***************************************************************************)
\* the call bowyer_watson_3d(points) of lib.rs line 304
InitCube ==
    /\ pc = "bowyer_watson_3d"
    /\ points = Cube
    /\ next_point = 1
    /\ rounded = 0
    /\ tetrahedralization = <<>>
    /\ super_tetrahedron = NoValue
    /\ result = NoValue
    /\ tetrahedra = NoValue
    /\ NoBowyerWatson2D
    /\ NoVoxelMesh
    /\ NoAdvancingFront
    /\ NoRefinement
    /\ NoOctree

SpecVertices == (Init \/ Init2D \/ InitCube) /\ [][Next \/ Next2D]_vars

InputPoint(v) == \E j \in 1..Len(points) : points[j] = v

SquareCorners == {<<0, 0>>, <<4, 0>>, <<0, 4>>, <<4, 4>>}

\* points is the four corners in some insertion order
UnitSquare ==
    /\ Len(points) = 4
    /\ {<<points[i].x, points[i].y>> : i \in 1..4} = SquareCorners

\* C18: for the four unit-square corners in every insertion order,
\* bowyer_watson returns exactly 2 triangles.
C18_UnitSquareTwoTriangles ==
    pc = "returned_2d" /\ UnitSquare => Len(result.ok) = 2

C18_Witness ==
    /\ pc = "returned_2d"
    /\ UnitSquare
    /\ <<points[1].x, points[1].y>> = <<4, 4>>
    /\ Len(result.ok) = 2


(***************************************************************************)
(* C19, C20: equality of faces and of their vertices                       *)
(***************************************************************************)
\* The points faces are built from: four corners of a tetrahedron, a point
\* with the index of the first and other coordinates, and a point with the
\* coordinates of the first and another index.
FacePoints ==
    {Point3D(0, 0, 0, 0), Point3D(1, 4, 0, 0), Point3D(2, 0, 4, 0), Point3D(3, 0, 0, 4),
     Point3D(0, 4, 4, 4), Point3D(4, 0, 0, 0)}

\* the fourth vertex of the tetrahedron a face is looked up in
Apex == Point3D(5, 2, 2, 2)

AnyFaces == {Face(v[1], v[2], v[3]) : v \in [1..3 -> FacePoints]}

\* two faces self and other to compare
InitEquality ==
    /\ pc = "compare"
    /\ input_faces \in {<<self, other>> : self \in AnyFaces, other \in AnyFaces}
    /\ result = NoValue
    /\ tetrahedra = NoValue
    /\ front = NoValue /\ all_points = NoValue /\ iterations = NoValue
    /\ NoLoop
    /\ NoBowyerWatson3D
    /\ NoBowyerWatson2D
    /\ NoVoxelMesh
    /\ NoRefinement
    /\ NoOctree

\* face.rs lines 16-27: self == other
CompareFaces ==
    /\ pc = "compare"
    /\ pc' = "face_eq"
    /\ result' = FaceEq(input_faces[1], input_faces[2])
    /\ UNCHANGED <<loop_vars, vars_3d, vars_2d, tetrahedra, voxel_vars, front_vars,
                   refine_vars, octree_vars>>

\* geometry_3d.rs lines 75-85: other looked up in the tetrahedron over self
FaceIsShared ==
    /\ pc = "compare"
    /\ pc' = "face_is_shared"
    /\ result' = face_is_shared_by_tetrahedra(
                     input_faces[2],
                     <<Tetrahedron(Apex, input_faces[1].a, input_faces[1].b, input_faces[1].c)>>)
    /\ UNCHANGED <<loop_vars, vars_3d, vars_2d, tetrahedra, voxel_vars, front_vars,
                   refine_vars, octree_vars>>

NextEquality == CompareFaces \/ FaceIsShared

SpecEquality == InitEquality /\ [][NextEquality]_vars

Compared == pc \in {"face_eq", "face_is_shared"}

\* other has the vertices of self in some order
Permuted(self, other) ==
    \E f \in [1..3 -> 1..3] :
        /\ \A i, j \in 1..3 : i # j => f[i] # f[j]
        /\ face_vertices(other) = [i \in 1..3 |-> face_vertices(self)[f[i]]]

DistinctPoints(f) == Cardinality(Range(face_vertices(f))) = 3

\* C19: a face built from any permutation of (a, b, c) compares equal to
\* Face{a, b, c}, also when it is looked up among the faces of a
\* tetrahedron, and two faces of three distinct points each compare equal
\* only when they have the same three endpoints.
C19_FaceEqualityUnordered ==
    Compared =>
        /\ Permuted(input_faces[1], input_faces[2]) => result
        /\ pc = "face_eq" /\ result
             /\ DistinctPoints(input_faces[1]) /\ DistinctPoints(input_faces[2])
           => Range(face_vertices(input_faces[1])) = Range(face_vertices(input_faces[2]))

C19_Witness ==
    /\ pc = "face_eq"
    /\ result
    /\ DistinctPoints(input_faces[1])
    /\ input_faces[2] = Face(input_faces[1].c, input_faces[1].a, input_faces[1].b)


\* the index labels of the vertices of a face
Indices(f) == {face_vertices(f)[i].index : i \in 1..3}

\* C20: vertex identity is decided by the index label alone: two faces over
\* three different labels each compare equal exactly when the labels are
\* the same, whatever the coordinates.
C20_IdentityByIndex ==
    pc = "face_eq" /\ Cardinality(Indices(input_faces[1])) = 3
                   /\ Cardinality(Indices(input_faces[2])) = 3
        => (result <=> Indices(input_faces[1]) = Indices(input_faces[2]))


(***************************************************************************)
(* C21: the labels of the super-simplex                                    *)
(***************************************************************************)
\* the labels of the caller's points
InputIndices == {points[i].index : i \in 1..Len(points)}

\* C21: no vertex of the super-triangle carries the index of an input point.
C21_SentinelIndices ==
    pc = "insert_2d" =>
        \A i \in 1..3 : triangle_vertices(super_triangle)[i].index \notin InputIndices


(***************************************************************************)
(* C22: pipeline.rs surface_to_volume.  marching_cubes.rs is not part of   *)
(* the sources at hand: the extractor follows section 4.5 of the           *)
(* specification (sample the grid vertices, form the 8-bit index of every  *)
(* cell, emit the triangles of the table).  The triangle table itself is   *)
(* not reproduced: a cell with index 0 or 255 emits nothing, any other     *)
(* cell emits at least one triangle, and the emitted faces are stood in    *)
(* for by a boundary the advancing front can work on.                      *)
(***************************************************************************)
\* most cells of the sampled grid
MaxSurfaceCells == 2

\* the grid vertices of an nx x ny x nz grid
SampleVertices(g) == (0..g.nx) \X (0..g.ny) \X (0..g.nz)

\* offsets of the eight corners of a cell, in the order of the index bits
CornerOffsets ==
    <<<<0, 0, 0>>, <<1, 0, 0>>, <<1, 1, 0>>, <<0, 1, 0>>,
      <<0, 0, 1>>, <<1, 0, 1>>, <<1, 1, 1>>, <<0, 1, 1>>>>

RECURSIVE BitSum(_, _)
BitSum(bits, n) == IF n = 0 THEN 0 ELSE (IF bits[n] THEN 2 ^ (n - 1) ELSE 0) + BitSum(bits, n - 1)

\* step 2: bit n is set when the sample at corner n is below the iso value;
\* samples[v] is the sign of f(v) - iso
cube_index(samples, c) ==
    BitSum([n \in 1..8 |->
               samples[<<c[1] + CornerOffsets[n][1], c[2] + CornerOffsets[n][2],
                         c[3] + CornerOffsets[n][3]>>] < 0], 8)

\* a variant of the table in which only index 0 is empty
table_entry_is_empty_zero_only(index) == index = 0

\* the edge table and the triangle table have no entry for 0 and for 255
table_entry_is_empty(index) == index = 0 \/ index = 255

\* the face lists standing in for a surface that is not empty
SomeSurfaces == {<<ClosedSurface[1]>>, ClosedSurface}

\* marching_cubes(nx, ny, nz, min, max, scalar_field, iso_value): the face
\* lists it may return
marching_cubes(g, samples) ==
    IF \A c \in Cells(g) : table_entry_is_empty(cube_index(samples, c))
    THEN {<<>>}
    ELSE SomeSurfaces

\* pipeline.rs lines 124-135: one vertex per index in order of first
\* appearance, then sorted by index
collect_face_points(fs) ==
    LET all == [n \in 1..(3 * Len(fs)) |->
                   face_vertices(fs[((n - 1) \div 3) + 1])[((n - 1) % 3) + 1]]
    IN  sort_by_index(
            Pick(all, {n \in 1..Len(all) : \A m \in 1..(n - 1) : all[m].index # all[n].index}))

SurfaceGrids ==
    {[min |-> Point3D(0, -4, -4, -4), max |-> Point3D(0, 4, 4, 4), nx |-> nx, ny |-> 1, nz |-> 1] :
        nx \in 0..MaxSurfaceCells}

\* the signs the samples may have: zero only on the grids of one cell
SampleSigns(g) == IF g.nx <= 1 THEN {-1, 0, 1} ELSE {-1, 1}

\* a call surface_to_volume(nx, ny, nz, min, max, scalar_field, iso_value)
InitSurfaceToVolume ==
    /\ pc = "surface_to_volume"
    /\ grid \in SurfaceGrids
    /\ evaluated \in [SampleVertices(grid) -> SampleSigns(grid)]
    /\ is_inside = NoValue
    /\ cell = NoValue
    /\ input_faces = <<>>
    /\ points = <<>>
    /\ front = <<>>
    /\ all_points = <<>>
    /\ iterations = 0
    /\ tetrahedra = <<>>
    /\ result = <<>>
    /\ next_point = NoValue
    /\ rounded = 0
    /\ NoBowyerWatson3D
    /\ NoBowyerWatson2D
    /\ NoRefinement
    /\ NoOctree

\* pipeline.rs lines 43-48
SurfaceToVolume ==
    /\ pc = "surface_to_volume"
    /\ \E faces_found \in marching_cubes(grid, evaluated) :
         IF faces_found = <<>>
         THEN /\ pc' = "surface_to_volume_done"
              /\ result' = <<>>
              /\ UNCHANGED <<input_faces, points>>
         ELSE /\ pc' = "advancing_front"
              /\ input_faces' = faces_found
              /\ points' = collect_face_points(faces_found)
              /\ UNCHANGED result
    /\ UNCHANGED <<next_point, rounded, vars_3d, vars_2d, tetrahedra, voxel_vars, front,
                   all_points, iterations, refine_vars, octree_vars>>

NextSurfaceToVolume == SurfaceToVolume \/ StartFront \/ AdvanceFront \/ ReturnFront

SpecSurfaceToVolume == InitSurfaceToVolume /\ [][NextSurfaceToVolume]_vars

\* every sample is strictly on one side of the iso value
NoSignChange ==
    \/ \A v \in SampleVertices(grid) : evaluated[v] < 0
    \/ \A v \in SampleVertices(grid) : evaluated[v] > 0

\* C22: with all samples on one side of the iso value marching_cubes
\* returns no face and surface_to_volume returns the empty list at once,
\* the advancing front never being entered.
C22_NoSignChangeEmpty ==
    NoSignChange =>
        /\ pc \in {"surface_to_volume", "surface_to_volume_done"}
        /\ marching_cubes(grid, evaluated) = {<<>>}
        /\ pc = "surface_to_volume_done" => result = <<>> /\ input_faces = <<>> /\ iterations = 0

C22_Witness ==
    /\ pc = "surface_to_volume_done"
    /\ grid.nx = MaxSurfaceCells
    /\ \A v \in SampleVertices(grid) : evaluated[v] < 0
    /\ result = <<>>


(***************************************************************************)
(* C23: the circumsphere of a tetrahedron that is not flat                 *)
(***************************************************************************)
\* the centre a + N / (2 det) of circumsphere(t) has the same squared
\* distance to a and to every vertex of t; radius is the distance to a
Equidistant(t) == \A v \in Range(vertices(t)) : SphereSide(t, v) = 0

\* C23: every tetrahedron of non-zero signed volume that circumsphere is
\* called for gets a centre equidistant from its four vertices.
C23_CentreEquidistant ==
    \A i \in 1..Len(tetrahedralization) :
        TetDet(tetrahedralization[i]) # 0 => Equidistant(tetrahedralization[i])

C23_Witness ==
    /\ pc = "done"
    /\ \E i \in 1..Len(result) :
         /\ TetDet(result[i]) # 0
         /\ Equidistant(result[i])


(***************************************************************************)
(* C24: one insertion of bowyer_watson_3d, stated on sets of tetrahedra    *)
(***************************************************************************)
\* the circumsphere of t contains p, its boundary included
CircumsphereContains(t, p) == SurelyInSphere(t, p) \/ OnSphere(t, p)

\* positions of the tetrahedra of W whose circumsphere contains p
BadPositions(W, p) == {i \in 1..Len(W) : CircumsphereContains(W[i], p)}

\* the faces of the tetrahedra at the positions B that are on no other
\* tetrahedron at a position of B
CavityBoundary(W, B) ==
    UNION {{f \in Range(faces(W[i])) :
               \A j \in B \ {i} : \A g \in Range(faces(W[j])) : ~SameTriple(f, g)} : i \in B}

\* W becomes (W minus bad) plus {face + p : face in boundary}, no bad
\* tetrahedron is left and what is new has p as its fourth vertex
Replaced(W, p, after) ==
    LET bad == {W[i] : i \in BadPositions(W, p)}
        added == {Tetrahedron(f.a, f.b, f.c, p) : f \in CavityBoundary(W, BadPositions(W, p))}
    IN  /\ Range(after) = (Range(W) \ bad) \cup added
        /\ Range(after) \cap bad = {}
        /\ \A t \in Range(after) \ Range(W) : t.d = p

\* a step that inserts points[next_point]
InsertStep == pc = "insert" /\ next_point <= Len(points) /\ next_point' = next_point + 1

\* C24: every insertion replaces the working tessellation by
\* (W minus bad) plus the boundary faces joined to the inserted point.
C24_InsertionStep ==
    [][InsertStep => Replaced(tetrahedralization, points[next_point], tetrahedralization')]_vars


(***************************************************************************)
(* C25: the front after one iteration of advancing_front                   *)
(***************************************************************************)
\* A face with a repeated vertex, the same with a face next to it, and one
\* with a face that ends at its centroid.
RepeatedVertexFaces ==
    {<<Face(FrontPoints[1], FrontPoints[1], FrontPoints[2])>>,
     <<Face(FrontPoints[1], FrontPoints[1], FrontPoints[2]),
       Face(FrontPoints[1], FrontPoints[2], FrontPoints[3])>>,
     <<Face(FrontPoints[1], FrontPoints[1], Point3D(4, 3, 0, 0)),
       Face(FrontPoints[1], FrontPoints[3], Point3D(1, 1, 0, 0))>>}

\* a point across the slanted face of the tetrahedron
Outer == Point3D(4, 4, 4, 4)

\* point lists that put a point on each side of a face
ApexPointLists == {Append(FrontPoints, Outer), <<FrontPoints[1], Outer>>, <<Outer>>}

\* a call advancing_front(faces, points), faces with a repeated vertex and
\* points on both sides of a face among the inputs
InitFrontStep ==
    /\ pc = "advancing_front"
    /\ input_faces \in FaceLists \cup RepeatedVertexFaces
    /\ points \in FrontPointLists \cup ApexPointLists
    /\ front = <<>>
    /\ all_points = <<>>
    /\ iterations = 0
    /\ tetrahedra = <<>>
    /\ result = <<>>
    /\ next_point = NoValue
    /\ rounded = 0
    /\ NoBowyerWatson3D
    /\ NoBowyerWatson2D
    /\ NoVoxelMesh
    /\ NoRefinement
    /\ NoOctree

SpecFrontStep == InitFrontStep /\ [][NextFront]_vars

\* how many faces of s have the three endpoints of g
Count(s, g) == Cardinality({i \in 1..Len(s) : SameTriple(s[i], g)})

Indicator(b) == IF b THEN 1 ELSE 0

\* The front after the iteration that consumed f with the point p, counted
\* face by face: f is gone; then, one side face after the other, a side face
\* that has an equal in the front takes one away and any other side face
\* comes in; nothing else changes.
FrontUpdated(before, f, p, after) ==
    LET sides == <<Face(f.a, f.b, p), Face(f.b, f.c, p), Face(f.a, f.c, p)>>
        count[k \in 0..3] ==
            [g \in Range(before) \cup Range(after) \cup Range(sides) |->
                IF k = 0 THEN Count(before, g) - Indicator(SameTriple(f, g))
                ELSE IF ~SameTriple(sides[k], g) THEN count[k - 1][g]
                ELSE IF count[k - 1][sides[k]] > 0 THEN count[k - 1][g] - 1
                ELSE count[k - 1][g] + 1]
    IN  \A g \in Range(before) \cup Range(after) \cup Range(sides) :
            Count(after, g) = count[3][g]

\* an iteration of the loop
FrontStep == pc = "front_loop" /\ iterations' = iterations + 1

\* C25: after an iteration that consumes f with the point p, f is removed,
\* each side face has removed an equal face of the front or has been added,
\* and every other face of the front is as before.
C25_FrontUpdate ==
    [][FrontStep =>
         FrontUpdated(front, front[1], tetrahedra'[Len(tetrahedra')].d, front')]_vars


(***************************************************************************)
(* C26: the priority of the apex in one iteration of advancing_front       *)
(***************************************************************************)
\* the face and the known points have the coordinates the caller gave
Determined(f, pts) ==
    \A p \in Range(face_vertices(f)) \cup Range(pts) : ~IsProjected(p)

\* the known points on one side of f, the vertices of f apart
Candidates(f, pts, sign) ==
    {p \in Range(pts) \ Range(face_vertices(f)) :
        Sign(dot(face_normal(f), FromCentroid(f, p))) = sign}

\* the points of S no point of S is nearer to the centroid of f than
NearestOf(f, S) ==
    {p \in S : \A q \in S : NormSq(FromCentroid(f, p)) <= NormSq(FromCentroid(f, q))}

\* p is the apex the order of priority gives for f, and after is the point
\* list it leaves
ApexInOrder(f, pts, p, after) ==
    IF Candidates(f, pts, 1) # {}
    THEN p \in NearestOf(f, Candidates(f, pts, 1)) /\ after = pts
    ELSE IF Candidates(f, pts, -1) # {}
    THEN p \in NearestOf(f, Candidates(f, pts, -1)) /\ after = pts
    ELSE /\ p \notin Range(pts)
         /\ p.index = Len(pts)
         /\ IsProjected(p) => p.projected_from = f
         /\ after = Append(pts, p)

\* C26: the apex of an iteration is the nearest known point on the positive
\* side of the face, else the nearest on the negative side, else a point
\* synthesized and appended; a candidate is never passed over for a
\* synthesized point.
C26_ApexPriority ==
    [][(FrontStep /\ Determined(front[1], all_points)) =>
         ApexInOrder(front[1], all_points, tetrahedra'[Len(tetrahedra')].d, all_points')]_vars

\* an iteration has taken the point on the positive side of its face though
\* the point on the negative side is nearer to the centroid
C26_Witness ==
    /\ pc = "front_loop"
    /\ iterations = 1
    /\ tetrahedra[1].d = Outer
    /\ Candidates(input_faces[1], points, -1) = {FrontPoints[1]}
    /\ all_points = points


(***************************************************************************)
(* C27: the mesh of delaunay_refinement is recomputed from the point list  *)
(***************************************************************************)
\* the working tessellation after the points n.. of pts are inserted into
\* W, no comparison being decided by rounding
RECURSIVE InsertAll(_, _, _)
InsertAll(W, pts, n) ==
    IF n > Len(pts) THEN W
    ELSE InsertAll(InsertInto(W, pts[n], BadTetrahedra(W, pts[n], {})), pts, n + 1)

\* bowyer_watson_3d(pts) as one value
Recomputed(pts) ==
    remove_tetrahedra_with_vertices_from_super_tetrahedron(
        InsertAll(<<create_super_tetrahedron(pts)>>, pts, 1), create_super_tetrahedron(pts))

\* c is at one distance from the four vertices of t
CentreOf(c, t) ==
    \A v \in Range(vertices(t)) : NormSq(EdgeVec(c, v)) = NormSq(EdgeVec(c, t.a))

\* after is before followed by the circumcentre of a tetrahedron of mesh
GrownByCentre(before, mesh, after) ==
    /\ Len(after) = Len(before) + 1
    /\ SubSeq(after, 1, Len(before)) = before
    /\ \E i \in 1..Len(mesh) : CentreOf(after[Len(after)], mesh[i])

\* C27: at every iteration and on return the mesh is bowyer_watson_3d of the
\* caller's points followed by the circumcentres inserted so far; every
\* iteration that goes on appends exactly one point, and nothing else
\* changes the point list.
C27_MeshRecomputed ==
    [][/\ pc = "delaunay_refinement" => refined_points' = points
       /\ pc # "delaunay_refinement" =>
            \/ refined_points' = refined_points /\ iterations' = iterations
            \/ /\ pc = "done"
               /\ iterations' = iterations + 1
               /\ GrownByCentre(refined_points, result, refined_points')
       /\ (pc' \in {"done", "refined"} /\ rounded' = 0) =>
            result' = Recomputed(refined_points')]_vars

\* the call has returned after an iteration that inserted a circumcentre,
\* with the mesh of the caller's points and that circumcentre
C27_Witness ==
    /\ pc = "refined"
    /\ iterations >= 1
    /\ rounded = 0
    /\ result # <<>>
    /\ result = Recomputed(refined_points)
    /\ Len(refined_points) = Len(CallerPoints) + iterations


(***************************************************************************)
(* C28: the working tessellation after every insertion                     *)
(***************************************************************************)
\* the points inserted so far
Inserted == {points[j] : j \in 1..(next_point - 1)}

\* C28: after every insertion no tetrahedron of the working tessellation has
\* an inserted point strictly inside its circumsphere, and every vertex of
\* it is a vertex of the super-tetrahedron or an inserted point.
C28_WorkingTessellationDelaunay ==
    pc = "insert" =>
        \A i \in 1..Len(tetrahedralization) :
            /\ \A p \in Inserted : ~StrictlyInside(tetrahedralization[i], p)
            /\ Range(vertices(tetrahedralization[i]))
                   \subseteq Range(vertices(super_tetrahedron)) \cup Inserted


(***************************************************************************)
(* C29: the five tetrahedra of one cell, in voxel_mesh and in octree_mesh  *)
(***************************************************************************)
\* calls of voxel_mesh and calls of octree_mesh
SpecCells == (InitVoxel \/ InitOctree) /\ [][NextVoxel \/ NextOctree]_vars

\* the five tetrahedra pushed last
LastFive == SubSeq(tetrahedra, Len(tetrahedra) - 4, Len(tetrahedra))

\* six times the volume of the cell whose p0, p1, p3, p4 are the vertices of
\* the first of five
CellExtent(five) ==
    <<five[1].b.x - five[1].a.x, five[1].c.y - five[1].a.y, five[1].d.z - five[1].a.z>>

CellVolume6(five) == 6 * CellExtent(five)[1] * CellExtent(five)[2] * CellExtent(five)[3]

\* the positions of the corner tetrahedra that have the triple of f as a face
SharedWith(f, five) ==
    {n \in 1..4 : \E j \in 1..4 : SameTriple(faces(five[n])[j], f)}

\* the faces of the five that are a face of no other of them
BoundaryFaces5(five) ==
    {nj \in (1..5) \X (1..4) : Incidence(faces(five[nj[1]])[nj[2]], five) = 1}

Partition(five) ==
    /\ \A n \in 1..5 : Sign(SignedVolume6(five[n])) = Sign(SignedVolume6(five[1]))
    /\ \A n \in 1..4 : 6 * Abs(SignedVolume6(five[n])) = CellVolume6(five)
    /\ 3 * Abs(SignedVolume6(five[5])) = CellVolume6(five)
    /\ Abs(SignedVolume6(five[1]) + SignedVolume6(five[2]) + SignedVolume6(five[3])
               + SignedVolume6(five[4]) + SignedVolume6(five[5])) = CellVolume6(five)
    /\ \A j \in 1..4 : Cardinality(SharedWith(faces(five[5])[j], five)) = 1
    /\ Cardinality(BoundaryFaces5(five)) = 12

\* C29: the five tetrahedra emitted for a cell of positive extent have
\* volumes of one sign, 1/6 of the cell for each corner tetrahedron and 1/3
\* for the central one, the cell in sum; every face of the central one is a
\* face of exactly one corner tetrahedron, and twelve faces are on the
\* boundary.
C29_FiveTetrahedraPartition ==
    (pc \in {"voxel_mesh", "voxel_done", "octree_mesh", "octree_done"} /\ tetrahedra # <<>>) =>
        ((\A n \in 1..3 : CellExtent(LastFive)[n] > 0) => Partition(LastFive))

\* a box of sides 2, 4, 6 has been split
C29_Witness ==
    /\ pc = "voxel_mesh"
    /\ Len(tetrahedra) = 5
    /\ CellExtent(LastFive) = <<2, 4, 6>>
    /\ Partition(LastFive)


(***************************************************************************)
(* C30: the two operands of an equality exchanged                          *)
(***************************************************************************)
\* the tetrahedron over a face
Over(f) == Tetrahedron(Apex, f.a, f.b, f.c)

\* C30: a comparison of two faces, and of the two tetrahedra over them,
\* gives the same answer with the operands exchanged, repeated vertices
\* included.
C30_EqualitySymmetric ==
    pc = "face_eq" =>
        /\ result <=> FaceEq(input_faces[2], input_faces[1])
        /\ TetrahedronEq(Over(input_faces[1]), Over(input_faces[2]))
               <=> TetrahedronEq(Over(input_faces[2]), Over(input_faces[1]))

====
